---- MODULE Spec2Model ----
(***************************************************************************)
(* Token-map generation engine of code2prompt (src/engine/token_map.rs):   *)
(* tree construction from a flat entry list, best-first selection under a  *)
(* line budget, depth-first emission of display rows.                      *)
(*                                                                         *)
(* Strings are sequences of characters (one-character TLA+ strings), so    *)
(* that split('/'), format!("{parent}/{name}") and String::cmp are         *)
(* computed, not assumed.  The literal "(other files)" is carried as one   *)
(* indivisible character: no operation of the module looks inside it.      *)
(* f64 percentages are exact rationals [num, den]; min_percent is given in *)
(* tenths of a percent (1 = the default 0.1).                              *)
(***************************************************************************)
EXTENDS Integers, Sequences, FiniteSets, Bags, TLC

\* ---------------------------------------------------------------- bounds
MaxEntries == 2
MaxTok == 2
MaxLines == 3

\* ------------------------------------------------------- string helpers
Slash == "/"
OtherFilesChar == "(other files)"
OtherFiles == <<OtherFilesChar>>

\* Byte order of the characters used: '(' < '/' < 'a' < 'b'.
CharOrd(c) ==
  CASE c = OtherFilesChar -> 0
    [] c = Slash -> 1
    [] c = "a" -> 2
    [] c = "b" -> 3

MinOf(a, b) == IF a < b THEN a ELSE b

\* String::cmp: "Less", "Equal" or "Greater", lexicographic by byte.
StrCmp(s, t) ==
  LET n == MinOf(Len(s), Len(t))
      diff == {i \in 1..n : s[i] # t[i]}
  IN IF diff = {}
       THEN IF Len(s) < Len(t) THEN "Less"
            ELSE IF Len(s) > Len(t) THEN "Greater" ELSE "Equal"
       ELSE LET i == CHOOSE j \in diff : \A k \in diff : j <= k
            IN IF CharOrd(s[i]) < CharOrd(t[i]) THEN "Less" ELSE "Greater"

\* usize::cmp
NumCmp(a, b) == IF a < b THEN "Less" ELSE IF a > b THEN "Greater" ELSE "Equal"

\* str::split('/'): the pieces between slashes, empty pieces kept.
RECURSIVE Split(_)
Split(s) ==
  LET cut == {i \in 1..Len(s) : s[i] = Slash}
  IN IF cut = {}
       THEN <<s>>
       ELSE LET i == CHOOSE j \in cut : \A k \in cut : j <= k
            IN <<SubSeq(s, 1, i - 1)>> \o Split(SubSeq(s, i + 1, Len(s)))

\* usize::saturating_sub
saturating_sub(a, b) == IF a > b THEN a - b ELSE 0

\* (x / d).ceil() for non-negative x and positive d
Ceil(x, d) == (x + d - 1) \div d

\* Option<T>: <<>> is None, <<v>> is Some(v).
None == <<>>
Some(v) == <<v>>

\* ------------------------------------------------------------ data model
EntryMetadata(dir) == [is_dir |-> dir, is_symlink |-> FALSE]

\* TreeNode::with_path; children are the tree's keys one component longer.
with_path(path) == [tokens |-> 0, path |-> path, metadata |-> None]

RootKey == <<>>

\* A tree is a function from keys (the sequence of BTreeMap keys leading
\* from the root to the node) to node records.
EmptyTree == (RootKey :> with_path(<<>>))

Children(t, k) ==
  {c \in DOMAIN t : Len(c) = Len(k) + 1 /\ SubSeq(c, 1, Len(k)) = k}

is_dir(n) == n.metadata # None /\ n.metadata[1].is_dir
is_file_node(n) == n.metadata # None /\ ~n.metadata[1].is_dir

RECURSIVE SumOver(_, _)
SumOver(f, S) ==
  IF S = {} THEN 0
  ELSE LET x == CHOOSE y \in S : TRUE IN f[x] + SumOver(f, S \ {x})

\* ---------------------------------------------------------- insert_path
RECURSIVE insert_path(_, _, _, _, _)
insert_path(t, k, components, tokens, parent_path) ==
  IF components = <<>> THEN t
  ELSE
    LET name == Head(components)
        full == IF parent_path = <<>> THEN name
                ELSE parent_path \o <<Slash>> \o name
        ck == Append(k, name)
        t1 == IF ck \in DOMAIN t THEN t ELSE t @@ (ck :> with_path(full))
    IN IF Len(components) = 1
         THEN [t1 EXCEPT ![ck].tokens = tokens,
                         ![ck].metadata = Some(EntryMetadata(FALSE))]
         ELSE insert_path(
                [t1 EXCEPT ![ck].tokens = @ + tokens,
                           ![ck].metadata = Some(EntryMetadata(TRUE))],
                ck, Tail(components), tokens, full)

\* Participates without the `tokens == 0` test of line 39.
ParticipatesZero(e) == e.is_file /\ e.token_count # None

\* The filter of the construction loop: files with a non-zero token count.
Participates(e) ==
  e.is_file /\ e.token_count # None /\ e.token_count[1] # 0

\* The construction loop over entries[1..n].
RECURSIVE BuildTree(_, _)
BuildTree(es, n) ==
  IF n = 0 THEN EmptyTree
  ELSE LET t == BuildTree(es, n - 1)
           e == es[n]
       IN IF Participates(e)
            THEN insert_path(t, RootKey, Split(e.relative_path),
                             e.token_count[1], <<>>)
            ELSE t

RootChildrenSum(t) ==
  SumOver([c \in Children(t, RootKey) |-> t[c].tokens], Children(t, RootKey))

\* ---------------------------------------------------- NodePriority, heap
NodePriority(tokens, path, depth) ==
  [tokens |-> tokens, path |-> path, depth |-> depth]

\* Ordering::then_with
then_with(o, next) == IF o = "Equal" THEN next ELSE o

\* cmp with the paths compared the other way round.
cmp_rev_path(self, other) ==
  then_with(NumCmp(self.tokens, other.tokens),
    then_with(NumCmp(other.depth, self.depth),
      StrCmp(other.path, self.path)))

\* cmp without the final comparison of the paths.
cmp_no_path(self, other) ==
  then_with(NumCmp(self.tokens, other.tokens),
            NumCmp(other.depth, self.depth))

\* <NodePriority as Ord>::cmp(self, other)
cmp(self, other) ==
  then_with(NumCmp(self.tokens, other.tokens),
    then_with(NumCmp(other.depth, self.depth),
      StrCmp(self.path, other.path)))

\* BinaryHeap::pop returns a greatest element; which one among elements
\* that compare Equal is not specified.
Greatest(h) ==
  {x \in BagToSet(h) : \A y \in BagToSet(h) : cmp(x, y) # "Less"}

push(h, x) == h (+) SetToBag({x})
remove(h, x) == h (-) SetToBag({x})

RECURSIVE push_all(_, _)
push_all(h, S) ==
  IF S = {} THEN h
  ELSE LET x == CHOOSE y \in S : TRUE IN push_all(push(h, x), S \ {x})

\* ------------------------------------------------ select_nodes_to_display
\* min_percent is in tenths of a percent: total * (p / 10) / 100.
MinTokens(total, p) == IF total = 0 THEN 0 ELSE Ceil(total * p, 1000)

\* Admissible with the threshold ignored for every node that has metadata.
AdmissibleAny(n, mt) == n.tokens >= mt \/ n.metadata # None

\* The admission predicate of lines 162 and 180.
Admissible(n, mt) == n.tokens >= mt \/ is_dir(n)

contains_key(m, k) == k \in DOMAIN m

\* HashMap::insert
insert(m, k, v) == [x \in DOMAIN m \cup {k} |-> IF x = k THEN v ELSE m[x]]

EmptyMap == [x \in {} |-> 0]

\* The seeding loop over root.children.
SeedHeap(t, mt) ==
  LET S == {NodePriority(t[c].tokens, t[c].path, 0) :
              c \in {d \in Children(t, RootKey) : Admissible(t[d], mt)}}
  IN push_all(EmptyBag, S)

RECURSIVE Walk(_, _, _)
Walk(t, cur, components) ==
  IF components = <<>> THEN Some(cur)
  ELSE IF Head(components) = <<>> THEN Walk(t, cur, Tail(components))
  ELSE IF Append(cur, Head(components)) \in DOMAIN t
    THEN Walk(t, Append(cur, Head(components)), Tail(components))
    ELSE None

find_node_by_path(t, path_str) ==
  IF path_str = <<>> THEN Some(RootKey) ELSE Walk(t, RootKey, Split(path_str))

\* LoopGuard with <= for <.
LoopGuardLe(allowed, h, ml) ==
  Cardinality(DOMAIN allowed) <= saturating_sub(ml, 1) /\ h # EmptyBag

\* The loop condition of line 171.
LoopGuard(allowed, h, ml) ==
  Cardinality(DOMAIN allowed) < saturating_sub(ml, 1) /\ h # EmptyBag

\* Pushed with the children given their parent's depth.
PushedSameDepth(t, allowed, np, mt) ==
  LET found == find_node_by_path(t, np.path)
  IN IF found = None THEN {}
     ELSE {NodePriority(t[c].tokens, t[c].path, np.depth) :
             c \in {d \in Children(t, found[1]) :
                      Admissible(t[d], mt) /\ ~contains_key(allowed, t[d].path)}}

\* The children pushed after np has been admitted (lines 178-190).
Pushed(t, allowed, np, mt) ==
  LET found == find_node_by_path(t, np.path)
  IN IF found = None THEN {}
     ELSE {NodePriority(t[c].tokens, t[c].path, np.depth + 1) :
             c \in {d \in Children(t, found[1]) :
                      Admissible(t[d], mt) /\ ~contains_key(allowed, t[d].path)}}

\* One iteration of the while loop, np being the element popped:
\* <<heap, allowed_nodes>> after it.
Iterate(t, h, allowed, np, mt) ==
  LET h1 == remove(h, np)
  IN IF contains_key(allowed, np.path)
       THEN <<h1, allowed>>
       ELSE LET a1 == insert(allowed, np.path, np.depth)
            IN <<push_all(h1, Pushed(t, a1, np, mt)), a1>>

\* -------------------------------------------------- rebuild_filtered_tree
Last(s) == s[Len(s)]

\* BTreeMap iteration: children in ascending key order.
RECURSIVE InKeyOrder(_)
InKeyOrder(S) ==
  IF S = {} THEN <<>>
  ELSE LET m == CHOOSE x \in S :
                  \A y \in S : StrCmp(Last(x), Last(y)) # "Greater"
       IN <<m>> \o InKeyOrder(S \ {m})

\* Position at which a stable descending sort places x in the sorted s.
RECURSIVE InsertDesc(_, _, _)
InsertDesc(t, s, x) ==
  IF s = <<>> THEN <<x>>
  ELSE IF t[Head(s)].tokens >= t[x].tokens
    THEN <<Head(s)>> \o InsertDesc(t, Tail(s), x)
    ELSE <<x>> \o s

\* slice::sort_by(|a, b| b.1.tokens.cmp(&a.1.tokens)), a stable sort.
RECURSIVE sort_by(_, _, _)
sort_by(t, s, n) ==
  IF n = 0 THEN <<>> ELSE InsertDesc(t, sort_by(t, s, n - 1), s[n])

displayable_children(t, k, allowed) ==
  LET kept == {c \in Children(t, k) : contains_key(allowed, t[c].path)}
      s == InKeyOrder(kept)
  IN sort_by(t, s, Len(s))

Percentage(tokens, total) ==
  IF total > 0 THEN [num |-> tokens * 100, den |-> total]
  ELSE [num |-> 0, den |-> 1]

TokenMapEntry(path, name, tokens, percentage, depth, last, metadata) ==
  [path |-> path, name |-> name, tokens |-> tokens, percentage |-> percentage,
   depth |-> depth, is_last |-> last, metadata |-> metadata]

RECURSIVE rebuild_filtered_tree(_, _, _, _, _, _, _)
RECURSIVE RebuildChildren(_, _, _, _, _, _)
rebuild_filtered_tree(t, k, current_path_str, allowed, depth, total, last) ==
  LET node == t[k]
      own ==
        IF current_path_str # <<>> /\ contains_key(allowed, current_path_str)
          THEN <<TokenMapEntry(
                   current_path_str,
                   Last(Split(current_path_str)),
                   node.tokens,
                   Percentage(node.tokens, total),
                   depth,
                   last,
                   IF node.metadata # None THEN node.metadata[1]
                   ELSE EntryMetadata(Children(t, k) # {}))>>
          ELSE <<>>
  IN own \o RebuildChildren(t, displayable_children(t, k, allowed), 1,
                            allowed, depth, total)

RebuildChildren(t, kids, i, allowed, depth, total) ==
  IF i > Len(kids) THEN <<>>
  ELSE rebuild_filtered_tree(t, kids[i], t[kids[i]].path, allowed,
                             depth + 1, total, i = Len(kids))
       \o RebuildChildren(t, kids, i + 1, allowed, depth, total)

\* calculate_file_tokens: tokens of every node with file metadata.
calculate_file_tokens(t) ==
  LET F == {k \in DOMAIN t : is_file_node(t[k])}
  IN SumOver([k \in F |-> t[k].tokens], F)

RECURSIVE SumSeq(_, _)
SumSeq(s, n) == IF n = 0 THEN 0 ELSE s[n] + SumSeq(s, n - 1)

\* DisplayedTokens without the is_dir test: directory rows counted too.
DisplayedTokensAll(rows) ==
  SumSeq([i \in 1..Len(rows) |-> rows[i].tokens], Len(rows))

\* Lines 74-77.
DisplayedTokens(rows) ==
  SumSeq([i \in 1..Len(rows) |->
            IF ~rows[i].metadata.is_dir THEN rows[i].tokens ELSE 0], Len(rows))

OtherFilesRow(hidden, total) ==
  TokenMapEntry(OtherFiles, OtherFiles, hidden, Percentage(hidden, total),
                0, TRUE, EntryMetadata(FALSE))

\* AppendOther without the hidden_tokens > 0 test.
AppendOtherAnyHidden(hidden, total) == total > 0

\* Line 80.
AppendOther(hidden, total) == hidden > 0 /\ total > 0

\* ------------------------------------------------------------- the inputs
\* relative_path values: files at the root, files in a directory, a nested
\* directory; "a" is also a proper prefix of "a/a", "a/b" of "a/b/a".
PathPool ==
  { <<"a">>, <<"b">>,
    <<"a", Slash, "a">>, <<"a", Slash, "b">>,
    <<"a", Slash, "b", Slash, "a">> }

ProcessedEntry(rp, file, tc) ==
  [relative_path |-> rp, is_file |-> file, token_count |-> tc]

\* Entries the construction loop skips: zero count, no count, not a file.
SkippedPool ==
  { ProcessedEntry(<<"a">>, TRUE, Some(0)),
    ProcessedEntry(<<"a", Slash, "b">>, TRUE, None),
    ProcessedEntry(<<"b">>, FALSE, Some(MaxTok)) }

EntryPool(paths) ==
  {ProcessedEntry(rp, TRUE, Some(n)) : rp \in paths, n \in 1..MaxTok}
    \cup SkippedPool

EntryLists(pool) == UNION {[1..n -> pool] : n \in 0..MaxEntries}

\* min_percent in tenths of a percent: 0.1 (the default), 50, 100, 200.
MinPercents == {1, 500, 1000, 2000}

VARIABLES
  entries,          \* the argument entries: &[ProcessedEntry]
  max_lines,        \* the argument max_lines
  min_percent,      \* the argument min_percent, in tenths of a percent
  pc,               \* position in generate_token_map_with_limit
  root,             \* the tree under construction
  total_tokens,
  min_tokens,
  heap,             \* BinaryHeap<NodePriority>, a bag
  allowed_nodes,    \* HashMap<String, usize>
  out_entries,      \* the Vec<TokenMapEntry> returned
  displayed_tokens,
  hidden_tokens,
  popped            \* history: the elements popped from heap, in order

tmVars ==
  <<entries, max_lines, min_percent, pc, root, total_tokens, min_tokens,
    heap, allowed_nodes, out_entries, displayed_tokens, hidden_tokens,
    popped>>

\* The token-map engine before any call of it.
TmIdle ==
  /\ entries = <<>>
  /\ max_lines = 0
  /\ min_percent = 0
  /\ pc = "idle"
  /\ root = EmptyTree
  /\ total_tokens = 0
  /\ min_tokens = 0
  /\ heap = EmptyBag
  /\ allowed_nodes = EmptyMap
  /\ out_entries = <<>>
  /\ displayed_tokens = 0
  /\ hidden_tokens = 0
  /\ popped = <<>>

\* display_token_map (src/ui/token_map_view.rs)
VARIABLES
  terminal_width,   \* the width terminal_size() reports, 80 without one
  max_name_length,  \* the name column width
  printed           \* the lines printed, as records of their parts

viewVars == <<terminal_width, max_name_length, printed>>

ViewIdle ==
  /\ terminal_width = 0
  /\ max_name_length = 0
  /\ printed = <<>>

\* should_include_file (src/engine/filter.rs): the arguments of the call
\* and its return value.
VARIABLES filter_args, filter_result
filterVars == <<filter_args, filter_result>>
FilterIdle == /\ filter_args = <<>> /\ filter_result = None

\* The directory pane of the selection screen (src/ui/tree_arena.rs,
\* src/ui/tree_pane.rs): the entries the arena is built from, the TreePane
\* fields arena, visible_nodes, allowed_nodes (pane_allowed), cursor and
\* last_filter, App::active_exts, the paths returned on Confirm, and the
\* position in select_filters_tui.
VARIABLES arena_in, arena, visible_nodes, pane_allowed, cursor, last_filter,
          active_exts, chosen_dir, tree_pc, last_selection,
          total_selected_files
treeVars == <<arena_in, arena, visible_nodes, pane_allowed, cursor,
              last_filter, active_exts, chosen_dir, tree_pc, last_selection,
              total_selected_files>>
TreeIdle ==
  /\ arena_in = <<>>
  /\ arena = <<>>
  /\ visible_nodes = <<>>
  /\ pane_allowed = {}
  /\ cursor = 0
  /\ last_filter = {}
  /\ active_exts = {}
  /\ chosen_dir = <<>>
  /\ tree_pc = "idle"
  /\ last_selection = <<>>
  /\ total_selected_files = 0

\* filter_session_entries (src/app_controller.rs): session.processed_entries,
\* the entries before the call, the two selections, and whether the call
\* has returned.
VARIABLES processed_entries, entries_before, sel_exts, sel_paths, session_pc
sessionVars ==
  <<processed_entries, entries_before, sel_exts, sel_paths, session_pc>>
SessionIdle ==
  /\ processed_entries = <<>>
  /\ entries_before = <<>>
  /\ sel_exts = <<>>
  /\ sel_paths = <<>>
  /\ session_pc = "idle"

\* The settings popup (src/ui/tui_select.rs): App::mode, App::settings,
\* the selected row of App::settings_state, the settings at the moment the
\* popup was opened, and the action returned by run_event_loop.
VARIABLES app_mode, settings, settings_state, settings_at_open, tui_action
settingsVars ==
  <<app_mode, settings, settings_state, settings_at_open, tui_action>>
SettingsIdle ==
  /\ app_mode = "idle"
  /\ settings = <<>>
  /\ settings_state = None
  /\ settings_at_open = <<>>
  /\ tui_action = None

\* The bars drawn by generate_hierarchical_bar: the last call with its
\* result, and the shade character every depth has been drawn with.
VARIABLES bar_call, shade_seen
barVars == <<bar_call, shade_seen>>
BarIdle == /\ bar_call = <<>> /\ shade_seen = {}

\* The variables outside the token-map engine, and their idle values.
notTm == <<viewVars, filterVars, treeVars, sessionVars, settingsVars, barVars>>
NotTmIdle ==
  ViewIdle /\ FilterIdle /\ TreeIdle /\ SessionIdle /\ SettingsIdle /\ BarIdle
\* The variables display_token_map leaves alone, besides the engine's.
notView == <<filterVars, treeVars, sessionVars, settingsVars, barVars>>
\* The variables should_include_file leaves alone.
notFilter == <<tmVars, viewVars, treeVars, sessionVars, settingsVars, barVars>>
NotFilterIdle ==
  TmIdle /\ ViewIdle /\ TreeIdle /\ SessionIdle /\ SettingsIdle /\ BarIdle
\* The variables the directory pane leaves alone.
notTree == <<tmVars, viewVars, filterVars, sessionVars, settingsVars, barVars>>
NotTreeIdle ==
  TmIdle /\ ViewIdle /\ FilterIdle /\ SessionIdle /\ SettingsIdle /\ BarIdle
\* The variables filter_session_entries leaves alone.
notSession == <<tmVars, viewVars, filterVars, treeVars, settingsVars, barVars>>
NotSessionIdle ==
  TmIdle /\ ViewIdle /\ FilterIdle /\ TreeIdle /\ SettingsIdle /\ BarIdle
\* The variables the settings popup leaves alone.
notSettings ==
  <<tmVars, viewVars, filterVars, treeVars, sessionVars, barVars>>
NotSettingsIdle ==
  TmIdle /\ ViewIdle /\ FilterIdle /\ TreeIdle /\ SessionIdle /\ BarIdle

\* The variables generate_hierarchical_bar leaves alone.
notBar ==
  <<tmVars, viewVars, filterVars, treeVars, sessionVars, settingsVars>>
NotBarIdle ==
  /\ TmIdle /\ ViewIdle /\ FilterIdle
  /\ TreeIdle /\ SessionIdle /\ SettingsIdle

vars == <<tmVars, notTm>>

InitWith(paths) ==
  /\ entries \in EntryLists(EntryPool(paths))
  /\ max_lines \in 0..MaxLines
  /\ min_percent \in MinPercents
  /\ pc = "build"
  /\ root = EmptyTree
  /\ total_tokens = 0
  /\ min_tokens = 0
  /\ heap = EmptyBag
  /\ allowed_nodes = EmptyMap
  /\ out_entries = <<>>
  /\ displayed_tokens = 0
  /\ hidden_tokens = 0
  /\ popped = <<>>
  /\ NotTmIdle

Init == InitWith(PathPool)

\* generate_token_map_with_limit, lines 34-60: build the tree, set the total.
Build ==
  /\ pc = "build"
  /\ LET t == BuildTree(entries, Len(entries))
         total == RootChildrenSum(t)
     IN /\ root' = [t EXCEPT ![RootKey].tokens = total]
        /\ total_tokens' = total
  /\ pc' = "seed"
  /\ UNCHANGED <<entries, max_lines, min_percent, min_tokens, heap,
                 allowed_nodes, out_entries, displayed_tokens, hidden_tokens,
                 popped, notTm>>

\* select_nodes_to_display, lines 153-169: min_tokens and the seeded heap.
Seed ==
  /\ pc = "seed"
  /\ min_tokens' = MinTokens(total_tokens, min_percent)
  /\ heap' = SeedHeap(root, min_tokens')
  /\ allowed_nodes' = EmptyMap
  /\ pc' = "loop"
  /\ UNCHANGED <<entries, max_lines, min_percent, root, total_tokens,
                 out_entries, displayed_tokens, hidden_tokens, popped,
                 notTm>>

\* select_nodes_to_display, lines 171-192: one iteration of the while loop.
Select ==
  /\ pc = "loop"
  /\ LoopGuard(allowed_nodes, heap, max_lines)
  /\ \E np \in Greatest(heap) :
       LET r == Iterate(root, heap, allowed_nodes, np, min_tokens)
       IN /\ heap' = r[1]
          /\ allowed_nodes' = r[2]
          /\ popped' = Append(popped, np)
  /\ UNCHANGED <<entries, max_lines, min_percent, pc, root, total_tokens,
                 min_tokens, out_entries, displayed_tokens, hidden_tokens,
                 notTm>>

\* Lines 63-95 as a function of the tree and the selection:
\* <<entries returned, displayed_tokens, hidden_tokens>>.
Emit(t, allowed, total) ==
  LET rows == rebuild_filtered_tree(t, RootKey, <<>>, allowed, 0, total, TRUE)
      displayed == DisplayedTokens(rows)
      hidden == saturating_sub(calculate_file_tokens(t), displayed)
  IN <<IF AppendOther(hidden, total)
         THEN Append(rows, OtherFilesRow(hidden, total))
         ELSE rows,
       displayed, hidden>>

\* Lines 193 and 63-95: the loop has ended; emit the rows, add the
\* "(other files)" row.
Render ==
  /\ pc = "loop"
  /\ ~LoopGuard(allowed_nodes, heap, max_lines)
  /\ LET r == Emit(root, allowed_nodes, total_tokens)
     IN /\ out_entries' = r[1]
        /\ displayed_tokens' = r[2]
        /\ hidden_tokens' = r[3]
  /\ pc' = "done"
  /\ UNCHANGED <<entries, max_lines, min_percent, root, total_tokens,
                 min_tokens, heap, allowed_nodes, popped, notTm>>

Next == Build \/ Seed \/ Select \/ Render

Spec == Init /\ [][Next]_vars

\* The same inputs, with a file and a directory named "(other files)".
OtherPool ==
  { OtherFiles, <<"a">>, <<OtherFilesChar, Slash, "a">> }

SpecOther == InitWith(OtherPool) /\ [][Next]_vars

\* Paths under a directory "b" that sorts after the root file "a": a child
\* of "b" is queued at depth 1 while "a" waits at depth 0.
DeepPool ==
  { <<"a">>, <<"b">>, <<"b", Slash, "a">>, <<"b", Slash, "b">> }

SpecDeep == InitWith(DeepPool) /\ [][Next]_vars

\* Paths with empty components: a doubled, a leading, a trailing slash.
EmptyCompPool ==
  { <<"a">>, <<"a", Slash, "b">>,
    <<"a", Slash, Slash, "b">>, <<Slash, "a">>, <<"a", Slash>> }

SpecEmptyComp == InitWith(EmptyCompPool) /\ [][Next]_vars

\* ------------------------------------------------- display_token_map
\* Characters printed; each has display width 1 (unicode_width).
BoxV == "BOX_V"                \* U+2502
BoxH == "BOX_H"                \* U+2500
BoxUpRight == "BOX_UP_RIGHT"   \* U+2514
BoxVertRight == "BOX_V_RIGHT"  \* U+251C
BoxDownRight == "BOX_DN_RIGHT" \* U+250C
BoxDownHoriz == "BOX_DN_HORIZ" \* U+252C
FullBlock == "FULL"            \* U+2588
LightShade == "LIGHT"          \* U+2591
MediumShade == "MEDIUM"        \* U+2592
DarkShade == "DARK"            \* U+2593
Ellipsis == "ELLIPSIS"         \* U+2026
Space == " "

\* The thirteen characters of "(other files)".
OtherFilesText ==
  <<"(", "o", "t", "h", "e", "r", " ", "f", "i", "l", "e", "s", ")">>

\* The string a name stands for, character by character.
RECURSIVE Chars(_)
Chars(name) ==
  IF name = <<>> THEN <<>>
  ELSE (IF Head(name) = OtherFilesChar THEN OtherFilesText ELSE <<Head(name)>>)
       \o Chars(Tail(name))

\* UnicodeWidthStr::width of a string of width-1 characters
width(str) == Len(str)

repeat(c, n) == [i \in 1..n |-> c]

MaxOf(a, b) == IF a > b THEN a ELSE b

RECURSIVE MaxSeq(_, _)
MaxSeq(f, n) == IF n = 1 THEN f[1] ELSE MaxOf(f[n], MaxSeq(f, n - 1))

\* usize::to_string
RECURSIVE to_string(_)
to_string(n) ==
  LET d == <<"0", "1", "2", "3", "4", "5", "6", "7", "8", "9">>[(n % 10) + 1]
  IN IF n < 10 THEN <<d>> ELSE Append(to_string(n \div 10), d)

format_tokens_integer_arithmetic(tokens) ==
  IF tokens >= 1000000
    THEN Append(to_string((tokens + 500000) \div 1000000), "M")
  ELSE IF tokens >= 1000
    THEN Append(to_string((tokens + 500) \div 1000), "K")
  ELSE to_string(tokens)

\* Lines 135-143.
MaxTokenWidth(es, total) ==
  MaxOf(MaxOf(MaxSeq([i \in 1..Len(es) |->
                        Len(format_tokens_integer_arithmetic(es[i].tokens))],
                     Len(es)),
              Len(format_tokens_integer_arithmetic(total))),
        4)

\* Line 148: the prefix width assumed when the column is sized.
PrefixWidthEstimate(depth) == IF depth = 0 THEN 3 ELSE (depth * 2) + 3

\* Lines 145-153.
MaxNameLength(es, tw) ==
  MinOf(MaxSeq([i \in 1..Len(es) |->
                  PrefixWidthEstimate(es[i].depth) + width(Chars(es[i].name))],
               Len(es)),
        tw \div 2)

\* Lines 154-156.
BarWidth(es, total, tw) ==
  MaxOf(saturating_sub(tw, MaxTokenWidth(es, total) + 3
                             + MaxNameLength(es, tw) + 2 + 2 + 5),
        10)

\* Lines 164-173: the first later entry of depth <= d_idx + 1 has depth
\* d_idx + 1.
HasSiblingBelow(es, i, d_idx) ==
  LET later == {j \in (i + 1)..Len(es) : es[j].depth <= d_idx + 1}
  IN later # {} /\
     es[CHOOSE j \in later : \A k \in later : j <= k].depth = d_idx + 1

RECURSIVE Indent(_, _, _)
Indent(es, i, n) ==
  IF n = 0 THEN <<>>
  ELSE Indent(es, i, n - 1)
       \o (IF HasSiblingBelow(es, i, n - 1) THEN <<BoxV, Space>>
           ELSE <<Space, Space>>)

\* Lines 162-204: the prefix of entry i (i counts from 1).
Prefix(es, i) ==
  LET entry == es[i]
      other == Chars(entry.name) = OtherFilesText
      p0 == IF entry.depth = 0 /\ i = 1 /\ ~other THEN <<>>
            ELSE Indent(es, i, entry.depth)
      p1 == IF entry.depth > 0 \/ (entry.depth = 0 /\ other)
              THEN p0 \o (IF entry.is_last THEN <<BoxUpRight, BoxH>>
                          ELSE <<BoxVertRight, BoxH>>)
            ELSE IF i = 1 /\ ~other THEN p0 \o <<BoxDownRight, BoxH>>
            ELSE p0
      has_children_to_display ==
        i + 1 <= Len(es) /\ es[i + 1].depth > entry.depth
      p2 == IF entry.depth > 0 \/ other \/ i = 1
              THEN Append(p1, IF has_children_to_display THEN BoxDownHoriz
                              ELSE BoxH)
            ELSE p1
  IN Append(p2, Space)

\* Lines 224-245: the name truncated with an ellipsis or padded.
NameWithPadding(name, prefix, mnl) ==
  LET name_display_width == width(name)
      available_for_name == saturating_sub(mnl, width(prefix))
  IN IF name_display_width > available_for_name
       THEN LET max_width == saturating_sub(available_for_name, 1)
                take_chars == MinOf(Len(name), max_width)
            IN Append(SubSeq(name, 1, take_chars), Ellipsis)
       ELSE name \o repeat(Space, available_for_name - name_display_width)

\* f64::round of (percentage / 100.0) * bar_width, half away from zero.
FilledChars(pct, bar_width) ==
  (2 * pct.num * bar_width + 100 * pct.den) \div (2 * 100 * pct.den)

\* The shade taken from a rotating set indexed by depth.max(1) % 4.
ShadeCharRotating(depth) ==
  CASE MaxOf(depth, 1) % 4 = 1 -> Space
    [] MaxOf(depth, 1) % 4 = 2 -> LightShade
    [] MaxOf(depth, 1) % 4 = 3 -> MediumShade
    [] OTHER -> DarkShade

ShadeChar(depth) ==
  CASE MaxOf(depth, 1) = 1 -> Space
    [] MaxOf(depth, 1) = 2 -> LightShade
    [] MaxOf(depth, 1) = 3 -> MediumShade
    [] OTHER -> DarkShade

generate_hierarchical_bar(bar_width, parent_bar_str, percentage, depth) ==
  IF bar_width = 0 THEN <<>>
  ELSE [i \in 1..bar_width |->
          IF i - 1 < FilledChars(percentage, bar_width) THEN FullBlock
          ELSE IF i - 1 < Len(parent_bar_str)
            THEN IF parent_bar_str[i] = FullBlock THEN ShadeChar(depth)
                 ELSE parent_bar_str[i]
          ELSE Space]

\* Lines 157-160.
InitialParentBars(es, bw) ==
  LET n == MaxSeq([i \in 1..Len(es) |-> es[i].depth], Len(es)) + 2
  IN [d \in 1..n |-> IF d = 1 /\ bw > 0 THEN repeat(FullBlock, bw) ELSE <<>>]

\* Lines 206-222: <<bar of entry, parent_bars after it>>; parent_bars[d]
\* of the code is bars[d + 1].
BarStep(bars, entry, bw) ==
  LET parent_bar_idx == IF entry.depth = 0 THEN 0 ELSE entry.depth - 1
      parent_bar_to_use ==
        IF parent_bar_idx + 1 <= Len(bars) THEN bars[parent_bar_idx + 1]
        ELSE repeat(Space, bw)
      bar == generate_hierarchical_bar(bw, parent_bar_to_use,
                                       entry.percentage, entry.depth)
  IN <<bar,
       IF entry.depth < Len(bars)
         THEN [bars EXCEPT ![entry.depth + 1] = bar]
         ELSE Append(bars, bar)>>

\* The loop of lines 161-279 over es[1..n]: <<lines, parent_bars>>.
RECURSIVE PrintLoop(_, _, _, _, _)
PrintLoop(es, n, mnl, bw, mtw) ==
  IF n = 0 THEN <<<<>>, InitialParentBars(es, bw)>>
  ELSE LET before == PrintLoop(es, n - 1, mnl, bw, mtw)
           b == BarStep(before[2], es[n], bw)
           prefix == Prefix(es, n)
           tokens_str == format_tokens_integer_arithmetic(es[n].tokens)
       IN <<Append(before[1],
                   [tokens_str |->
                      repeat(Space, saturating_sub(mtw, Len(tokens_str)))
                        \o tokens_str,
                    prefix |-> prefix,
                    name |-> NameWithPadding(Chars(es[n].name), prefix, mnl),
                    bar |-> b[1]]),
            b[2]>>

\* The sum the callers pass as total_tokens (output.rs, lines 73-77).
SumTokenCounts(es) ==
  SumSeq([i \in 1..Len(es) |->
            IF es[i].token_count = None THEN 0 ELSE es[i].token_count[1]],
         Len(es))

\* Terminal widths: narrow ones and the fallback of line 134.
DefaultWidth == 80
TermWidths == {12, 20, DefaultWidth}

\* display_token_map(&map, sum) on the rows returned.
Display ==
  /\ pc = "done"
  /\ \E tw \in TermWidths :
       /\ terminal_width' = tw
       /\ IF out_entries = <<>>
            THEN /\ max_name_length' = 0
                 /\ printed' = <<>>
            ELSE /\ max_name_length' = MaxNameLength(out_entries, tw)
                 /\ printed' =
                      PrintLoop(out_entries, Len(out_entries),
                                MaxNameLength(out_entries, tw),
                                BarWidth(out_entries,
                                         SumTokenCounts(entries), tw),
                                MaxTokenWidth(out_entries,
                                              SumTokenCounts(entries)))[1]
  /\ pc' = "shown"
  /\ UNCHANGED <<entries, max_lines, min_percent, root, total_tokens,
                 min_tokens, heap, allowed_nodes, out_entries,
                 displayed_tokens, hidden_tokens, popped, notView>>

\* Names of one, two and three characters, down to depth 3.
ViewPool ==
  { <<"a">>, <<"a", "b">>, <<"a", Slash, "b">>, <<"a", Slash, "a", "b", "b">>,
    <<"a", Slash, "b", Slash, "a">> }

NextView == Next \/ Display

SpecView == InitWith(ViewPool) /\ [][NextView]_vars

\* --------------------------------------------- the function as a whole
\* The while loop run to its end, every pop resolved to one greatest
\* element.
RECURSIVE RunLoop(_, _, _, _, _)
RunLoop(t, h, allowed, ml, mt) ==
  IF LoopGuard(allowed, h, ml)
    THEN LET np == CHOOSE x \in Greatest(h) : TRUE
             r == Iterate(t, h, allowed, np, mt)
         IN RunLoop(t, r[1], r[2], ml, mt)
    ELSE allowed

select_nodes_to_display(t, total, ml, p) ==
  RunLoop(t, SeedHeap(t, MinTokens(total, p)), EmptyMap, ml,
          MinTokens(total, p))

generate_token_map_with_limit(es, ml, p) ==
  LET t0 == BuildTree(es, Len(es))
      total == RootChildrenSum(t0)
      t == [t0 EXCEPT ![RootKey].tokens = total]
  IN Emit(t, select_nodes_to_display(t, total, ml, p), total)[1]

\* ====================================================== properties
NonRoot(t) == DOMAIN t \ {RootKey}
Admitted == DOMAIN allowed_nodes
Built == pc # "build"
Selecting == pc \in {"loop", "done"}

\* C1: at every point of the selection and on return, the SelectionSet has
\* at most max_lines - 1 entries, none when max_lines <= 1.
C1_Budget ==
  IF max_lines <= 1
    THEN Admitted = {}
    ELSE Cardinality(Admitted) <= max_lines - 1

\* The budget, not the queue, ended the selection.
C1_Witness ==
  /\ pc = "done"
  /\ max_lines >= 2
  /\ Cardinality(Admitted) = max_lines - 1
  /\ heap # EmptyBag

\* C2: after construction every directory node's tokens is the sum of its
\* children's tokens and every file node's tokens is a count assigned to
\* its path by an entry.
C2_Aggregation ==
  Built =>
    \A k \in NonRoot(root) :
      /\ is_dir(root[k]) =>
           root[k].tokens =
             SumOver([c \in Children(root, k) |-> root[c].tokens],
                     Children(root, k))
      /\ is_file_node(root[k]) =>
           \E i \in 1..Len(entries) :
             /\ entries[i].is_file
             /\ entries[i].token_count = Some(root[k].tokens)
             /\ Split(entries[i].relative_path) = k

\* The participating token counts of the input, summed.
RECURSIVE InputTokens(_, _)
InputTokens(es, n) ==
  IF n = 0 THEN 0
  ELSE InputTokens(es, n - 1)
       + (IF es[n].is_file /\ es[n].token_count # None
            THEN es[n].token_count[1] ELSE 0)

\* C3: total_tokens is the sum of token_count over the file entries of the
\* input that have one.
C3_TotalIsInputSum ==
  Built => total_tokens = InputTokens(entries, Len(entries))

\* C4: displayed_tokens + hidden_tokens is the total over file nodes
\* whenever total_tokens > 0; the subtraction never clamps.
C4_Completeness ==
  (pc = "done" /\ total_tokens > 0) =>
    /\ displayed_tokens <= calculate_file_tokens(root)
    /\ displayed_tokens + hidden_tokens = calculate_file_tokens(root)

\* Some file is shown, some file is hidden, and a directory row is among
\* the rows.
C4_Witness ==
  /\ pc = "done"
  /\ total_tokens > 0
  /\ displayed_tokens > 0
  /\ hidden_tokens > 0
  /\ \E i \in 1..Len(out_entries) : out_entries[i].metadata.is_dir

\* C5: every returned row has a percentage in [0, 100].
C5_PercentageBounds ==
  \A i \in 1..Len(out_entries) :
    LET q == out_entries[i].percentage
    IN q.den > 0 /\ 0 <= q.num /\ q.num <= 100 * q.den

\* C6: the rows returned are a function of (entries, max_lines,
\* min_percent): every execution returns the rows of the execution that
\* resolves each pop to one fixed greatest element.
C6_Deterministic ==
  pc = "done" =>
    out_entries = generate_token_map_with_limit(entries, max_lines, min_percent)

\* Two candidates with equal tokens were queued together and the budget
\* admitted only one of them.
C6_Witness ==
  /\ pc = "done"
  /\ \E i, j \in 1..Len(entries) :
       /\ i # j
       /\ Participates(entries[i]) /\ Participates(entries[j])
       /\ entries[i].token_count = entries[j].token_count
       /\ entries[i].relative_path # entries[j].relative_path
       /\ Len(Split(entries[i].relative_path))
            = Len(Split(entries[j].relative_path))
       /\ contains_key(allowed_nodes, entries[i].relative_path)
       /\ ~contains_key(allowed_nodes, entries[j].relative_path)
       /\ \/ Len(Split(entries[i].relative_path)) = 1
          \/ Split(entries[i].relative_path)[1]
               = Split(entries[j].relative_path)[1]

\* An entry the construction must ignore.
Ignored(e) ==
  \/ ~e.is_file
  \/ e.token_count = None
  \/ e.token_count = Some(0)

\* insert_path applied to every entry of es[1..n], none skipped.
RECURSIVE InsertAll(_, _)
InsertAll(es, n) ==
  IF n = 0 THEN EmptyTree
  ELSE insert_path(InsertAll(es, n - 1), RootKey,
                   Split(es[n].relative_path),
                   IF es[n].token_count = None THEN 0
                   ELSE es[n].token_count[1],
                   <<>>)

Kept(es) == SelectSeq(es, LAMBDA e : ~Ignored(e))

\* C7: ignored entries leave no trace: the tree is the tree of the list
\* without them, and a list of ignored entries only gives total_tokens = 0,
\* an empty SelectionSet and no row.
C7_IgnoredEntries ==
  /\ Built =>
       /\ [k \in NonRoot(root) |-> root[k]]
            = [k \in NonRoot(InsertAll(Kept(entries), Len(Kept(entries))))
                 |-> InsertAll(Kept(entries), Len(Kept(entries)))[k]]
       /\ DOMAIN root = DOMAIN InsertAll(Kept(entries), Len(Kept(entries)))
  /\ (\A i \in 1..Len(entries) : Ignored(entries[i])) =>
       /\ total_tokens = 0
       /\ Admitted = {}
       /\ out_entries = <<>>
       /\ NonRoot(root) = {}

\* An ignored entry precedes a participating one at another path.
C7_Witness ==
  /\ pc = "done"
  /\ Len(entries) = 2
  /\ Ignored(entries[1])
  /\ ~Ignored(entries[2])
  /\ entries[1].relative_path # entries[2].relative_path
  /\ out_entries # <<>>

\* Indices of the returned rows named "(other files)".
NamedOther == {i \in 1..Len(out_entries) : out_entries[i].name = OtherFiles}

\* Those among them at depth 0; rows of tree nodes have depth >= 1.
NamedOtherTop == {i \in NamedOther : out_entries[i].depth = 0}

OtherRowShape(I) ==
  /\ I # {} <=> (hidden_tokens > 0 /\ total_tokens > 0)
  /\ Cardinality(I) <= 1
  /\ \A i \in I :
       /\ i = Len(out_entries)
       /\ out_entries[i].path = OtherFiles
       /\ out_entries[i].tokens = hidden_tokens
       /\ out_entries[i].depth = 0
       /\ out_entries[i].is_last
       /\ ~out_entries[i].metadata.is_dir

\* C8 as stated: a row named "(other files)" is returned iff
\* hidden_tokens > 0 and total_tokens > 0; it is unique, last, and has the
\* synthetic row's fields.
C8_OtherRowAsStated == pc = "done" => OtherRowShape(NamedOther)

\* C8 amended: a row named "(other files)" at depth 0 is returned iff
\* hidden_tokens > 0 and total_tokens > 0; it is unique, last, and has the
\* synthetic row's fields.
C8_OtherRow == pc = "done" => OtherRowShape(NamedOtherTop)

\* A tree node named "(other files)" is shown and the synthetic row is
\* appended after it.
C8_Witness ==
  /\ pc = "done"
  /\ NamedOtherTop # {}
  /\ NamedOther \ NamedOtherTop # {}

\* ceil(total_tokens * min_percent / 100), min_percent in tenths of a
\* percent: the least n with n * 1000 >= total_tokens * min_percent.
Threshold ==
  IF total_tokens = 0 THEN 0
  ELSE CHOOSE n \in 0..(total_tokens * ((min_percent \div 1000) + 1)) :
         /\ n * 1000 >= total_tokens * min_percent
         /\ (n = 0 \/ (n - 1) * 1000 < total_tokens * min_percent)

\* Tree nodes that satisfy the admission predicate.
Eligible ==
  {k \in NonRoot(root) : is_dir(root[k]) \/ root[k].tokens >= Threshold}

\* C9: the selection returns exactly min(max_lines - 1, E) entries, E the
\* number of tree nodes satisfying the admission predicate.
C9_WholeBudget ==
  pc = "done" =>
    Cardinality(Admitted)
      = MinOf(IF max_lines >= 1 THEN max_lines - 1 ELSE 0,
              Cardinality(Eligible))

\* Nodes of the tree that carry the path p.
NodesAt(p) == {k \in NonRoot(root) : root[k].path = p}

FileBelow(p) ==
  \E k \in NodesAt(p) : is_file_node(root[k]) /\ root[k].tokens < Threshold

\* C10: min_tokens is the ceiling above, and no file node below it is in
\* the queue, in the SelectionSet or among the rows.
C10_Threshold ==
  Selecting =>
    /\ min_tokens = Threshold
    /\ \A x \in BagToSet(heap) : ~FileBelow(x.path)
    /\ \A q \in Admitted : ~FileBelow(q)
    /\ \A i \in 1..Len(out_entries) :
         out_entries[i].depth > 0 => ~FileBelow(out_entries[i].path)

\* A directory below min_tokens is admitted and shown while a file below
\* min_tokens stays out although the queue has been emptied.
C10_Witness ==
  /\ pc = "done"
  /\ \E k \in NonRoot(root) :
       /\ is_dir(root[k])
       /\ root[k].tokens < min_tokens
       /\ contains_key(allowed_nodes, root[k].path)
       /\ \E i \in 1..Len(out_entries) : out_entries[i].path = root[k].path
  /\ \E k \in NonRoot(root) :
       /\ is_file_node(root[k])
       /\ root[k].tokens < min_tokens
       /\ ~contains_key(allowed_nodes, root[k].path)
  /\ heap = EmptyBag
  /\ min_percent <= 1000

\* Tokens of the nodes that carry the path p.
TokensAt(p) == {root[k].tokens : k \in NodesAt(p)}

\* C11: on return every admitted node has at least the tokens of every
\* node that satisfies the admission predicate and was not admitted.
C11_HighestFirst ==
  pc = "done" =>
    \A q \in Admitted : \A k \in Eligible :
      ~contains_key(allowed_nodes, root[k].path) =>
        \A n \in TokensAt(q) : n >= root[k].tokens

\* C20 amended: every pop removes a candidate with the highest tokens,
\* among those one of the smallest depth, among those the one whose path
\* is last in lexicographic order.
PopsGreatestPath ==
  Len(popped') = Len(popped) + 1 =>
    LET x == Last(popped')
    IN /\ x \in BagToSet(heap)
       /\ \A y \in BagToSet(heap) :
            \/ y.tokens < x.tokens
            \/ y.tokens = x.tokens /\ y.depth > x.depth
            \/ y.tokens = x.tokens /\ y.depth = x.depth
                 /\ StrCmp(y.path, x.path) \in {"Less", "Equal"}

C20_PopOrder == [][PopsGreatestPath]_vars

\* C20 as stated: ... among equal tokens and depth, the one whose path is
\* first in lexicographic order.
PopsSmallestPath ==
  Len(popped') = Len(popped) + 1 =>
    LET x == Last(popped')
    IN /\ x \in BagToSet(heap)
       /\ \A y \in BagToSet(heap) :
            \/ y.tokens < x.tokens
            \/ y.tokens = x.tokens /\ y.depth > x.depth
            \/ y.tokens = x.tokens /\ y.depth = x.depth
                 /\ StrCmp(x.path, y.path) \in {"Less", "Equal"}

C20_PopOrderAsStated == [][PopsSmallestPath]_vars

\* The first pop chose by path between two candidates of equal tokens and
\* depth; the second chose by depth, and its deeper rival of equal tokens
\* is still queued.
C20_Witness ==
  /\ Len(popped) = 2
  /\ popped[1].tokens = popped[2].tokens
  /\ popped[1].depth = popped[2].depth
  /\ popped[1].path # popped[2].path
  /\ \E y \in BagToSet(heap) :
       /\ y.tokens = popped[2].tokens
       /\ y.depth > popped[2].depth

\* join of the non-empty components of a path
RECURSIVE JoinNonEmpty(_)
JoinNonEmpty(cs) ==
  IF cs = <<>> THEN <<>>
  ELSE IF Head(cs) = <<>> THEN JoinNonEmpty(Tail(cs))
  ELSE LET rest == JoinNonEmpty(Tail(cs))
       IN IF rest = <<>> THEN Head(cs) ELSE Head(cs) \o <<Slash>> \o rest

\* The entry list with the empty components removed from every path.
Normalised(es) ==
  [i \in 1..Len(es) |->
     [es[i] EXCEPT !.relative_path = JoinNonEmpty(Split(@))]]

\* C12: empty path components are skipped by the construction: no node has
\* an empty name, the tree is the tree of the paths without their empty
\* components, and the file's tokens are among the rows.
C12_EmptyComponentsSkipped ==
  /\ Built =>
       /\ \A k \in NonRoot(root) : \A i \in 1..Len(k) : k[i] # <<>>
       /\ [k \in NonRoot(root) |-> root[k]]
            = [k \in NonRoot(BuildTree(Normalised(entries), Len(entries)))
                 |-> BuildTree(Normalised(entries), Len(entries))[k]]
  /\ pc = "done" =>
       displayed_tokens + hidden_tokens = calculate_file_tokens(root)

\* C13: on every row printed by display_token_map the width of the tree
\* prefix plus the width of the truncated or padded name equals the name
\* column width, so the bars of all rows start at the same column.
C13_NameColumnAligned ==
  pc = "shown" =>
    \A i \in 1..Len(printed) :
      width(printed[i].prefix) + width(printed[i].name) = max_name_length

\* ------------------------------------------------- should_include_file
Backslash == "\\"
Star == "*"

\* Glob matching of globset: a literal character matches itself and "*"
\* matches any run of characters, separators included.
RECURSIVE glob_match(_, _)
glob_match(pat, str) ==
  IF pat = <<>> THEN str = <<>>
  ELSE IF Head(pat) = Star
    THEN \E n \in 0..Len(str) :
           glob_match(Tail(pat), SubSeq(str, n + 1, Len(str)))
  ELSE str # <<>> /\ Head(str) = Head(pat) /\ glob_match(Tail(pat), Tail(str))

\* GlobSet::is_empty and GlobSet::is_match
is_empty(set) == set = {}
is_match(set, str) == \E pat \in set : glob_match(pat, str)

\* Path::components: the non-empty parts between separators.
Components(p) == SelectSeq(Split(p), LAMBDA c : c # <<>>)

IsPrefixSeq(a, b) == Len(a) <= Len(b) /\ SubSeq(b, 1, Len(a)) = a

\* path.strip_prefix(root_path).unwrap_or(path), line 56
strip_prefix_or(p, base) ==
  IF IsPrefixSeq(Components(base), Components(p))
    THEN JoinNonEmpty(SubSeq(Components(p), Len(Components(base)) + 1,
                             Len(Components(p))))
  ELSE p

\* str::replace('\\', "/"), line 57
replace_backslash(str) ==
  [i \in 1..Len(str) |-> IF str[i] = Backslash THEN Slash ELSE str[i]]

MatchResult(included, excluded) ==
  [included |-> included, excluded |-> excluded]

get_match_result(path_str, include_set, exclude_set) ==
  LET included == is_empty(include_set) \/ is_match(include_set, path_str)
      excluded == IF included THEN is_match(exclude_set, path_str) ELSE FALSE
  IN MatchResult(included, excluded)

\* The match of lines 62-77 with include_priority ignored on a conflict.
DecisionExcludeWins(matches, include_priority) ==
  matches.included /\ ~matches.excluded

\* Lines 62-77.
Decision(matches, include_priority) ==
  IF matches.excluded
    THEN (IF matches.included THEN include_priority ELSE FALSE)
  ELSE matches.included

should_include_file(p, root_path, include_set, exclude_set, priority) ==
  IF is_empty(include_set) /\ is_empty(exclude_set) THEN TRUE
  ELSE LET path_str == replace_backslash(strip_prefix_or(p, root_path))
       IN Decision(get_match_result(path_str, include_set, exclude_set),
                   priority)

\* At most MaxPatterns patterns in a set.
MaxPatterns == 2
PatternPool == { <<Star>>, <<"a">>, <<"a", Slash, Star>>, <<Star, "b">> }
GlobSets == {s \in SUBSET PatternPool : Cardinality(s) <= MaxPatterns}
FilterPaths ==
  { <<"a">>, <<"b">>, <<"a", Slash, "b">>, <<"a", Backslash, "b">>,
    <<"b", Slash, "a">>, <<"a", Slash, "a">> }
FilterRoots == { <<>>, <<"a">> }

InitFilter ==
  /\ NotFilterIdle
  /\ filter_args \in [path : FilterPaths, root_path : FilterRoots,
                      include_set : GlobSets, exclude_set : GlobSets,
                      include_priority : BOOLEAN]
  /\ filter_result = None

\* The call of traverse.rs, lines 118-126.
CheckFile ==
  /\ filter_args # <<>>
  /\ filter_result = None
  /\ filter_result' =
       Some(should_include_file(filter_args.path, filter_args.root_path,
                                filter_args.include_set,
                                filter_args.exclude_set,
                                filter_args.include_priority))
  /\ UNCHANGED <<notFilter, filter_args>>

NextFilter == CheckFile

SpecFilter == InitFilter /\ [][NextFilter]_vars

\* The path string the patterns are matched against.
FilterPathStr ==
  replace_backslash(strip_prefix_or(filter_args.path, filter_args.root_path))

\* The result of the call with the given include_priority.
ResultWith(priority) ==
  should_include_file(filter_args.path, filter_args.root_path,
                      filter_args.include_set, filter_args.exclude_set,
                      priority)

\* C14: include_priority decides the result of should_include_file exactly
\* when the path matches an include pattern and an exclude pattern, and the
\* result is then include_priority; otherwise (an empty include set
\* included) the result is the same for both values of include_priority.
C14_PriorityOnlyOnConflict ==
  filter_result # None =>
    LET both == /\ is_match(filter_args.include_set, FilterPathStr)
                /\ is_match(filter_args.exclude_set, FilterPathStr)
    IN /\ filter_result[1] = ResultWith(filter_args.include_priority)
       /\ both => filter_result[1] = filter_args.include_priority
       /\ ~both => ResultWith(TRUE) = ResultWith(FALSE)

\* ----------------------------------------------------- build_dir_arena
\* DirFlags
IS_DIR == "IS_DIR"
EXPANDED == "EXPANDED"
SELECTED == "SELECTED"
PARTIAL_SELECTION == "PARTIAL_SELECTION"

\* DirNode without ext_slot, which no flag, link or count depends on.
\* Idx counts from 0.
DirNode(name, parent, next_sibling, flags, extension) ==
  [name |-> name, parent |-> parent, first_child |-> None,
   next_sibling |-> next_sibling, flags |-> flags, file_count |-> 0,
   total_toks |-> 0, visible_toks |-> 0, visible_files |-> 0,
   extension |-> extension]

Node(ar, idx) == ar[idx + 1]

\* Lines 59-71: the synthetic root.
RootNode ==
  DirNode(<<"(root)">>, None, None, {IS_DIR, EXPANDED, SELECTED}, None)

\* PathInfo for ProcessedEntry (model.rs, lines 81-98)
count(path_info) == 1
token_count(path_info) == path_info.token_count

ensure_child(ar, index, parent_idx, part, dir, extension) ==
  LET key == <<parent_idx, part>>
  IN IF key \in DOMAIN index
       THEN [arena |-> ar, index |-> index, child |-> index[key]]
       ELSE LET new_idx == Len(ar)
                new_flags == IF dir THEN {IS_DIR, SELECTED} ELSE {SELECTED}
                new_node == DirNode(part, Some(parent_idx),
                                    Node(ar, parent_idx).first_child,
                                    new_flags, extension)
            IN [arena |-> [Append(ar, new_node)
                             EXCEPT ![parent_idx + 1].first_child =
                                      Some(new_idx)],
                index |-> index @@ (key :> new_idx),
                child |-> new_idx]

\* Lines 107-116: add file_count to a node and to every ancestor of it.
RECURSIVE Propagate(_, _, _, _)
Propagate(ar, node_idx_to_update, file_count, toks) ==
  IF node_idx_to_update = None THEN ar
  ELSE LET idx == node_idx_to_update[1]
       IN Propagate([ar EXCEPT ![idx + 1].file_count = @ + file_count,
                               ![idx + 1].total_toks = @ + toks,
                               ![idx + 1].visible_toks = @ + toks,
                               ![idx + 1].visible_files = @ + file_count],
                    Node(ar, idx).parent, file_count, toks)

\* Lines 82-119: the loop over the components of one path.
RECURSIVE ComponentLoop(_, _, _, _)
ComponentLoop(st, path_info, comps, parent) ==
  IF comps = <<>> THEN st
  ELSE LET is_last == Len(comps) = 1
           file_extension == IF is_last THEN path_info.extension ELSE None
           e == ensure_child(st.arena, st.index, parent, Head(comps),
                             ~is_last, file_extension)
           file_count == count(path_info)
           toks == IF is_last /\ token_count(path_info) # None
                     THEN token_count(path_info)[1]
                   ELSE 0
           ar == IF file_count > 0
                   THEN Propagate(e.arena, Some(e.child), file_count, toks)
                   ELSE e.arena
       IN ComponentLoop([arena |-> ar, index |-> e.index], path_info,
                        Tail(comps), e.child)

\* Lines 74-120: the main loop over paths[1..n].
RECURSIVE PathsLoop(_, _)
PathsLoop(paths, n) ==
  IF n = 0 THEN [arena |-> <<RootNode>>, index |-> <<>>]
  ELSE LET st == PathsLoop(paths, n - 1)
       IN IF paths[n].path = <<>> THEN st
          ELSE ComponentLoop(st, paths[n], Components(paths[n].path), 0)

build_dir_arena(paths) == PathsLoop(paths, Len(paths)).arena

\* TreePane::get_path_buf: the components from below the root to the node.
RECURSIVE get_path_buf(_, _)
get_path_buf(ar, node_idx) ==
  IF node_idx = 0 THEN <<>>
  ELSE Append(get_path_buf(ar, Node(ar, node_idx).parent[1]),
              Node(ar, node_idx).name)

\* Files of a small repository, with their extensions.
MaxFiles == 3
X == <<"x">>
Y == <<"y">>
ArenaPool ==
  { [path |-> <<"a">>, extension |-> Some(X), token_count |-> Some(1)],
    [path |-> <<"b">>, extension |-> None, token_count |-> Some(2)],
    [path |-> <<"d", Slash, "a">>, extension |-> Some(X),
     token_count |-> Some(1)],
    [path |-> <<"d", Slash, "b">>, extension |-> Some(Y),
     token_count |-> None],
    [path |-> <<"d", Slash, "d", Slash, "a">>, extension |-> Some(X),
     token_count |-> Some(2)] }

\* Lists of distinct files.
ArenaInputs ==
  UNION { {s \in [1..n -> ArenaPool] :
             \A i, j \in 1..n : i # j => s[i] # s[j]} : n \in 0..MaxFiles }

InitTree ==
  /\ NotTreeIdle
  /\ arena_in \in ArenaInputs
  /\ arena = <<>>
  /\ visible_nodes = <<>>
  /\ pane_allowed = {}
  /\ cursor = 0
  /\ last_filter = {}
  /\ active_exts = {}
  /\ chosen_dir = <<>>
  /\ tree_pc = "build"
  /\ last_selection = None
  /\ total_selected_files = 0

\* ------------------------------------------------------------ TreePane
contains(flags, wanted) == wanted \subseteq flags

\* The children of a node, in first_child / next_sibling order.
RECURSIVE SiblingChain(_, _)
SiblingChain(ar, child_opt) ==
  IF child_opt = None THEN <<>>
  ELSE <<child_opt[1]>> \o SiblingChain(ar, Node(ar, child_opt[1]).next_sibling)

ChildrenOf(ar, idx) == SiblingChain(ar, Node(ar, idx).first_child)

\* A node and its ancestors, the root included.
RECURSIVE SelfAndAncestors(_, _)
SelfAndAncestors(ar, idx_opt) ==
  IF idx_opt = None THEN {}
  ELSE {idx_opt[1]} \cup SelfAndAncestors(ar, Node(ar, idx_opt[1]).parent)

Ancestors(ar, idx) == SelfAndAncestors(ar, Node(ar, idx).parent)

\* rebuild_visible, pass 1 (lines 106-126)
MarkAllowed(ar, active_extensions) ==
  UNION { SelfAndAncestors(ar, Some(i)) :
            i \in { j \in 1..(Len(ar) - 1) :
                      /\ IS_DIR \notin Node(ar, j).flags
                      /\ Node(ar, j).extension # None
                      /\ Node(ar, j).extension[1] \in active_extensions } }

\* walk_and_add over a node, and over a list of siblings.
RECURSIVE walk_and_add(_, _, _)
RECURSIVE WalkSiblings(_, _, _)
walk_and_add(ar, allowed, node_idx) ==
  <<node_idx>> \o
    (IF contains(Node(ar, node_idx).flags, {IS_DIR, EXPANDED})
       THEN WalkSiblings(ar, allowed, ChildrenOf(ar, node_idx))
       ELSE <<>>)
WalkSiblings(ar, allowed, sibs) ==
  IF sibs = <<>> THEN <<>>
  ELSE (IF Head(sibs) \in allowed THEN walk_and_add(ar, allowed, Head(sibs))
        ELSE <<>>)
       \o WalkSiblings(ar, allowed, Tail(sibs))

\* Vec::get(i) and Iterator::position, with positions counted from 0.
get(seq, i) == IF i < Len(seq) THEN Some(seq[i + 1]) ELSE None
position(seq, x) ==
  IF \E i \in 1..Len(seq) : seq[i] = x
    THEN Some((CHOOSE i \in 1..Len(seq) :
                 seq[i] = x /\ \A j \in 1..(i - 1) : seq[j] # x) - 1)
  ELSE None

\* The pane as a record of the TreePane fields.
Pane(ar, vis, allowed, cur, filter) ==
  [arena |-> ar, visible_nodes |-> vis, allowed_nodes |-> allowed,
   cursor |-> cur, last_filter |-> filter]

ThePane == Pane(arena, visible_nodes, pane_allowed, cursor, last_filter)

\* TreePane::rebuild_visible
rebuild_visible(pane, active_extensions) ==
  LET old_cursor_id == get(pane.visible_nodes, pane.cursor)
  IN IF active_extensions = {}
       THEN [pane EXCEPT !.visible_nodes = <<>>, !.cursor = 0]
       ELSE LET allowed == IF pane.last_filter # active_extensions
                             THEN MarkAllowed(pane.arena, active_extensions)
                             ELSE pane.allowed_nodes
                vis == WalkSiblings(pane.arena, allowed,
                                    ChildrenOf(pane.arena, 0))
                cur == IF old_cursor_id # None
                         THEN (IF position(vis, old_cursor_id[1]) # None
                                 THEN position(vis, old_cursor_id[1])[1]
                                 ELSE 0)
                       ELSE pane.cursor
            IN [pane EXCEPT !.visible_nodes = vis,
                            !.allowed_nodes = allowed,
                            !.last_filter = active_extensions,
                            !.cursor = MinOf(cur,
                                             saturating_sub(Len(vis), 1))]

\* TreePane::set_selection_recursive over a node, and over its siblings.
RECURSIVE set_selection_recursive(_, _, _)
RECURSIVE SetSelectionSiblings(_, _, _)
set_selection_recursive(ar, node_idx, select) ==
  LET ar1 == [ar EXCEPT ![node_idx + 1].flags =
                          IF select THEN @ \cup {SELECTED}
                          ELSE @ \ {SELECTED}]
  IN IF IS_DIR \in Node(ar1, node_idx).flags
       THEN SetSelectionSiblings(ar1, ChildrenOf(ar1, node_idx), select)
       ELSE ar1
SetSelectionSiblings(ar, sibs, select) ==
  IF sibs = <<>> THEN ar
  ELSE SetSelectionSiblings(set_selection_recursive(ar, Head(sibs), select),
                            Tail(sibs), select)

\* The parent keeps the flag it has.
update_parent_selection_state_kept(ar, parent_idx) == ar

\* TreePane::update_parent_selection_state
update_parent_selection_state(ar, parent_idx) ==
  IF parent_idx = 0 \/ Node(ar, parent_idx).first_child = None THEN ar
  ELSE LET all_children_selected ==
             \A c \in 1..Len(ChildrenOf(ar, parent_idx)) :
               SELECTED \in Node(ar, ChildrenOf(ar, parent_idx)[c]).flags
       IN [ar EXCEPT ![parent_idx + 1].flags =
                       IF all_children_selected THEN @ \cup {SELECTED}
                       ELSE @ \ {SELECTED}]

\* The loop of toggle_selection over the ancestors, nearest first.
RECURSIVE UpdateAncestors(_, _)
UpdateAncestors(ar, current_ancestor) ==
  IF current_ancestor = None \/ current_ancestor = Some(0) THEN ar
  ELSE UpdateAncestors(update_parent_selection_state(ar, current_ancestor[1]),
                       Node(ar, current_ancestor[1]).parent)

\* TreePane::toggle_selection
toggle_selection(pane) ==
  LET cur == get(pane.visible_nodes, pane.cursor)
  IN IF cur = None THEN pane
     ELSE LET node_idx == cur[1]
              is_selected == SELECTED \in Node(pane.arena, node_idx).flags
              ar == set_selection_recursive(pane.arena, node_idx,
                                            ~is_selected)
          IN [pane EXCEPT !.arena =
                            UpdateAncestors(ar, Node(ar, node_idx).parent)]

\* TreePane::has_partial_selection
has_partial_selection(pane, node_idx) ==
  PARTIAL_SELECTION \in Node(pane.arena, node_idx).flags

\* Vec<String>::join("/")
RECURSIVE join(_)
join(parts) ==
  IF parts = <<>> THEN <<>>
  ELSE IF Len(parts) = 1 THEN Head(parts)
  ELSE Head(parts) \o <<Slash>> \o join(Tail(parts))

\* TreePane::get_path
get_path(ar, node_idx) == join(get_path_buf(ar, node_idx))

\* TreePane::new, step 3: select the matched nodes one after the other.
RECURSIVE SelectCached(_, _)
SelectCached(ar, nodes_to_select) ==
  IF nodes_to_select = <<>> THEN ar
  ELSE LET node_idx == Head(nodes_to_select)
           ar1 == set_selection_recursive(ar, node_idx, TRUE)
       IN SelectCached(UpdateAncestors(ar1, Node(ar1, node_idx).parent),
                       Tail(nodes_to_select))

\* Indices from..(Len(ar) - 1) whose path is a key, in increasing order.
RECURSIVE NodesToSelect(_, _, _)
NodesToSelect(ar, key_set, from) ==
  IF from >= Len(ar) THEN <<>>
  ELSE (IF get_path(ar, from) \in key_set THEN <<from>> ELSE <<>>)
       \o NodesToSelect(ar, key_set, from + 1)

\* TreePane::new: the arena after the cached selection, if any, is applied.
TreePane_new(ar, sel) ==
  IF sel = None \/ sel[1].directories = {} THEN ar
  ELSE LET clean == [i \in 1..Len(ar) |->
                       [ar[i] EXCEPT !.flags = @ \ {SELECTED}]]
       IN SelectCached(clean, NodesToSelect(clean, sel[1].directories, 1))

\* ListPane::new on the extensions: the items selected at the start.
ListPane_new(items, initial_selection_keys) ==
  IF initial_selection_keys = None THEN items
  ELSE items \cap initial_selection_keys[1]

\* App::recalculate_all_visible_counts, step 3: the depth-first pass over
\* the subtree of idx, and over a list of siblings.
RECURSIVE RecalcNode(_, _, _, _)
RECURSIVE RecalcSiblings(_, _, _, _)
RecalcNode(ar, exts, idx, ancestor_selected) ==
  LET is_node_selected == SELECTED \in Node(ar, idx).flags
      effective_selection == ancestor_selected \/ is_node_selected
      dir == IS_DIR \in Node(ar, idx).flags
      kids == IF dir THEN ChildrenOf(ar, idx) ELSE <<>>
      ar1 == RecalcSiblings(ar, exts, kids, effective_selection)
      children_visible_files ==
        SumSeq([i \in 1..Len(kids) |-> Node(ar1, kids[i]).visible_files],
               Len(kids))
      children_visible_toks ==
        SumSeq([i \in 1..Len(kids) |-> Node(ar1, kids[i]).visible_toks],
               Len(kids))
      ext == IF Node(ar, idx).extension = None THEN <<>>
             ELSE Node(ar, idx).extension[1]
      counted == ~dir /\ effective_selection /\ ext \in exts
  IN [ar1 EXCEPT
        ![idx + 1].visible_files =
          IF counted THEN 1 ELSE children_visible_files,
        ![idx + 1].visible_toks =
          IF counted THEN Node(ar1, idx).total_toks
          ELSE children_visible_toks]
RecalcSiblings(ar, exts, sibs, ancestor_selected) ==
  IF sibs = <<>> THEN ar
  ELSE RecalcSiblings(RecalcNode(ar, exts, Head(sibs), ancestor_selected),
                      exts, Tail(sibs), ancestor_selected)

\* App::recalculate_all_visible_counts: the pane after steps 3 and 6;
\* active_extensions is the set rebuilt in step 1.
recalculate_all_visible_counts(pane, active_extensions) ==
  rebuild_visible(
    [pane EXCEPT !.arena = RecalcNode(pane.arena, active_extensions, 0,
                                      FALSE)],
    active_extensions)

\* TreePane::toggle_expand
toggle_expand(pane) ==
  LET cur == get(pane.visible_nodes, pane.cursor)
  IN IF cur # None /\ IS_DIR \in Node(pane.arena, cur[1]).flags
       THEN [pane EXCEPT !.arena[cur[1] + 1].flags =
                           IF EXPANDED \in @ THEN @ \ {EXPANDED}
                           ELSE @ \cup {EXPANDED}]
       ELSE pane

\* TreePane::collapse_or_move_to_parent
collapse_or_move_to_parent(pane) ==
  LET cur == get(pane.visible_nodes, pane.cursor)
  IN IF cur = None THEN pane
     ELSE LET node == Node(pane.arena, cur[1])
          IN IF contains(node.flags, {IS_DIR, EXPANDED})
               THEN [pane EXCEPT !.arena[cur[1] + 1].flags = @ \ {EXPANDED}]
             ELSE IF node.parent # None /\ node.parent # Some(0)
                     /\ position(pane.visible_nodes, node.parent[1]) # None
               THEN [pane EXCEPT !.cursor =
                       position(pane.visible_nodes, node.parent[1])[1]]
             ELSE pane

\* TreePane::next and TreePane::previous
next(pane) ==
  IF pane.visible_nodes = <<>> THEN pane
  ELSE [pane EXCEPT !.cursor =
          IF @ >= Len(pane.visible_nodes) - 1 THEN 0 ELSE @ + 1]
previous(pane) ==
  IF pane.visible_nodes = <<>> THEN pane
  ELSE [pane EXCEPT !.cursor =
          IF @ = 0 THEN Len(pane.visible_nodes) - 1 ELSE @ - 1]

\* get_selected_paths with the ancestor test left out.
CoveredNever(ar, already_added, idx) == FALSE

\* Lines 367-376: an ancestor of the node is already in the set.
Covered(ar, already_added, idx) ==
  Ancestors(ar, idx) \cap already_added # {}

\* The loop of get_selected_paths over visible_nodes[1..n]:
\* [out, already_added].
RECURSIVE SelectedLoop(_, _)
SelectedLoop(pane, n) ==
  IF n = 0 THEN [out |-> <<>>, already_added |-> {}]
  ELSE LET acc == SelectedLoop(pane, n - 1)
           idx == pane.visible_nodes[n]
       IN IF SELECTED \notin Node(pane.arena, idx).flags THEN acc
          ELSE IF Covered(pane.arena, acc.already_added, idx) THEN acc
          ELSE [out |-> Append(acc.out, get_path_buf(pane.arena, idx)),
                already_added |-> acc.already_added \cup {idx}]

get_selected_paths(pane) == SelectedLoop(pane, Len(pane.visible_nodes)).out

\* The extensions listed in the extensions pane (app_controller.rs, lines
\* 305-313): those of the entries.
ExtItems ==
  {arena_in[i].extension[1] :
     i \in {j \in 1..Len(arena_in) : arena_in[j].extension # None}}

SetPane(pane) ==
  /\ arena' = pane.arena
  /\ visible_nodes' = pane.visible_nodes
  /\ pane_allowed' = pane.allowed_nodes
  /\ cursor' = pane.cursor
  /\ last_filter' = pane.last_filter

\* app_controller.rs, line 321
BuildArena ==
  /\ tree_pc = "build"
  /\ arena' = build_dir_arena(arena_in)
  /\ tree_pc' = "new"
  /\ UNCHANGED <<notTree, arena_in, visible_nodes, pane_allowed, cursor,
                 last_filter, active_exts, chosen_dir, last_selection,
                 total_selected_files>>

\* The pane and App::total_selected_files after
\* recalculate_all_visible_counts (steps 3, 4 and 6).
SetApp(pane, exts) ==
  LET p == recalculate_all_visible_counts(pane, exts)
  IN /\ SetPane(p)
     /\ total_selected_files' = Node(p.arena, 0).visible_files

\* select_filters_tui, lines 540-563: ListPane::new and TreePane::new with
\* the selection sel of the last session, if any, then
\* recalculate_all_visible_counts.
OpenWith(sel) ==
  LET exts == ListPane_new(ExtItems,
                           IF sel = None THEN None
                           ELSE Some(sel[1].extensions))
  IN /\ last_selection' = sel
     /\ active_exts' = exts
     /\ SetApp(Pane(TreePane_new(arena, sel), <<>>, {}, 0, {}), exts)
     /\ tree_pc' = "keys"
     /\ UNCHANGED <<notTree, arena_in, chosen_dir>>

\* The session starts without a cached selection.
OpenPane ==
  /\ tree_pc = "new"
  /\ OpenWith(None)

\* The selections a cache file can hold: every extension of the repository
\* or every one but x, and at most MaxCached paths, of nodes of the arena or
\* of none.
MaxCached == 1
CachedSelections ==
  LET paths == {get_path(arena, i) : i \in 1..(Len(arena) - 1)}
                 \cup {<<"z">>}
  IN [extensions : {ExtItems, ExtItems \ {X}},
      directories : {D \in SUBSET paths : Cardinality(D) <= MaxCached}]

\* The session starts with the selection cached by the last one.
OpenPaneCached ==
  /\ tree_pc = "new"
  /\ \E sel \in CachedSelections : OpenWith(Some(sel))

\* Up, Down and the scroll wheel on the directories pane.
KeyNext ==
  /\ tree_pc = "keys"
  /\ SetPane(next(ThePane))
  /\ UNCHANGED <<notTree, arena_in, active_exts, chosen_dir, tree_pc,
                 last_selection, total_selected_files>>

KeyPrevious ==
  /\ tree_pc = "keys"
  /\ SetPane(previous(ThePane))
  /\ UNCHANGED <<notTree, arena_in, active_exts, chosen_dir, tree_pc,
                 last_selection, total_selected_files>>

\* Space on the directories pane: toggle_current_selection, then
\* recalculate_all_visible_counts, which ends with rebuild_visible.
KeyToggleSelection ==
  /\ tree_pc = "keys"
  /\ SetApp(toggle_selection(ThePane), active_exts)
  /\ UNCHANGED <<notTree, arena_in, active_exts, chosen_dir, tree_pc,
                 last_selection>>

\* Space on the extensions pane: the item's selection flips and
\* recalculate_all_visible_counts rebuilds active_exts and the visible list.
KeyToggleExtension ==
  /\ tree_pc = "keys"
  /\ \E ext \in ExtItems :
       LET exts == IF ext \in active_exts THEN active_exts \ {ext}
                   ELSE active_exts \cup {ext}
       IN /\ active_exts' = exts
          /\ SetApp(ThePane, exts)
  /\ UNCHANGED <<notTree, arena_in, chosen_dir, tree_pc, last_selection>>

\* Right or 'l' on the directories pane (tui_select.rs, lines 708-711).
KeyExpand ==
  /\ tree_pc = "keys"
  /\ SetPane(rebuild_visible(toggle_expand(ThePane), active_exts))
  /\ UNCHANGED <<notTree, arena_in, active_exts, chosen_dir, tree_pc,
                 last_selection, total_selected_files>>

\* Left or 'h' on the directories pane (tui_select.rs, lines 712-726).
KeyCollapse ==
  /\ tree_pc = "keys"
  /\ LET cur == get(visible_nodes, cursor)
     IN IF cur # None
             /\ contains(Node(arena, cur[1]).flags, {IS_DIR, EXPANDED})
          THEN SetPane(rebuild_visible(collapse_or_move_to_parent(ThePane),
                                       active_exts))
        ELSE IF cur # None /\ Node(arena, cur[1]).parent # None
                /\ Node(arena, cur[1]).parent # Some(0)
          THEN SetPane(collapse_or_move_to_parent(ThePane))
        ELSE SetPane(ThePane)
  /\ UNCHANGED <<notTree, arena_in, active_exts, chosen_dir, tree_pc,
                 last_selection, total_selected_files>>

\* Confirm (tui_select.rs, lines 573-586)
Confirm ==
  /\ tree_pc = "keys"
  /\ chosen_dir' = get_selected_paths(ThePane)
  /\ tree_pc' = "confirmed"
  /\ UNCHANGED <<notTree, arena_in, arena, visible_nodes, pane_allowed,
                 cursor, last_filter, active_exts, last_selection,
                 total_selected_files>>

NextTree ==
  \/ BuildArena
  \/ OpenPane
  \/ KeyNext
  \/ KeyPrevious
  \/ KeyToggleSelection
  \/ KeyToggleExtension
  \/ KeyExpand
  \/ KeyCollapse
  \/ Confirm

SpecTree == InitTree /\ [][NextTree]_vars

\* The session up to Confirm, started with or without a cached selection.
NextCached ==
  \/ BuildArena
  \/ OpenPane
  \/ OpenPaneCached
  \/ KeyNext
  \/ KeyPrevious
  \/ KeyToggleSelection
  \/ KeyToggleExtension
  \/ KeyExpand
  \/ KeyCollapse

\* Position of a file of ArenaPool in the listing of the repository:
\* shorter paths first, then by file name.
ListingRank(f) ==
  2 * Len(f.path) + (IF f.path[Len(f.path)] = "b" THEN 1 ELSE 0)

\* The files of the repository in listing order.
InitCached ==
  /\ InitTree
  /\ \A i, j \in 1..Len(arena_in) :
       i < j => ListingRank(arena_in[i]) < ListingRank(arena_in[j])

SpecCached == InitCached /\ [][NextCached]_vars

\* The distinct non-empty prefixes of the input paths, as component lists.
PathPrefixes ==
  UNION { {SubSeq(Components(arena_in[i].path), 1, n) :
             n \in 1..Len(Components(arena_in[i].path))} :
          i \in 1..Len(arena_in) }

\* The number of input files at or beneath a path.
FilesAtOrBeneath(comps) ==
  Cardinality({i \in 1..Len(arena_in) :
                 IsPrefixSeq(comps, Components(arena_in[i].path))})

ArenaBuilt == tree_pc \in {"new", "keys", "confirmed"}

\* C15: after build_dir_arena the arena has one node per distinct path
\* prefix plus the root, and every node's file_count is the number of input
\* files at or beneath it (the root's is the number of input files, a
\* file's is 1).
C15_FileCounts ==
  ArenaBuilt =>
    /\ Len(arena) = Cardinality(PathPrefixes) + 1
    /\ \A idx \in 0..(Len(arena) - 1) :
         Node(arena, idx).file_count
           = FilesAtOrBeneath(get_path_buf(arena, idx))

Confirmed == tree_pc = "confirmed"

\* C16: get_selected_paths returns only top-most selected paths: no
\* returned path is an ancestor of, or equal to, another returned path.
C16_TopMostOnly ==
  Confirmed =>
    \A i, j \in 1..Len(chosen_dir) :
      i # j => ~IsPrefixSeq(chosen_dir[i], chosen_dir[j])

\* A selected directory is returned while a selected descendant of it is
\* visible, and a second path is returned as well.
C16_Witness ==
  /\ Confirmed
  /\ Len(chosen_dir) >= 2
  /\ \E i, j \in 1..Len(visible_nodes) :
       /\ visible_nodes[i] \in Ancestors(arena, visible_nodes[j])
       /\ SELECTED \in Node(arena, visible_nodes[i]).flags
       /\ SELECTED \in Node(arena, visible_nodes[j]).flags
       /\ \E k \in 1..Len(chosen_dir) :
            chosen_dir[k] = get_path_buf(arena, visible_nodes[i])

\* The file nodes that are selected and have an active extension.
SelectedFiles ==
  {idx \in 1..(Len(arena) - 1) :
     /\ IS_DIR \notin Node(arena, idx).flags
     /\ SELECTED \in Node(arena, idx).flags
     /\ Node(arena, idx).extension # None
     /\ Node(arena, idx).extension[1] \in active_exts}

\* C17: on Confirm every selected file with an active extension is covered
\* by get_selected_paths: it or one of its ancestor directories is returned,
\* whether or not the directories above it are expanded.
C17_AllSelectedCovered ==
  Confirmed =>
    \A idx \in SelectedFiles :
      \E k \in 1..Len(chosen_dir) :
        IsPrefixSeq(chosen_dir[k], get_path_buf(arena, idx))

\* ----------------------------------------------- filter_session_entries
\* Characters outside ASCII with an upper and a lower case form.
LowerEAcute == "LOWER_E_ACUTE"
UpperEAcute == "UPPER_E_ACUTE"

\* u8::to_ascii_lowercase on a character: only A-Z change.
to_ascii_lowercase(c) ==
  CASE c = "A" -> "a"
    [] c = "B" -> "b"
    [] OTHER -> c

\* Exact comparison of two components.
eq_exact(a, b) == a = b

\* OsStr::eq_ignore_ascii_case
eq_ignore_ascii_case(a, b) ==
  /\ Len(a) = Len(b)
  /\ \A i \in 1..Len(a) : to_ascii_lowercase(a[i]) = to_ascii_lowercase(b[i])

\* The loop of paths_match_case_insensitive over the two component lists.
RECURSIVE MatchLoop(_, _)
MatchLoop(prefix_components, full_components) ==
  IF prefix_components = <<>> THEN TRUE
  ELSE IF full_components = <<>> THEN FALSE
  ELSE IF ~eq_ignore_ascii_case(Head(prefix_components),
                                Head(full_components)) THEN FALSE
  ELSE MatchLoop(Tail(prefix_components), Tail(full_components))

paths_match_case_insensitive(full_path, prefix) ==
  MatchLoop(Components(prefix), Components(full_path))

\* The retain closure of lines 336-355 for one entry.
Retained(e, exts, paths) ==
  LET ext_set == {exts[i] : i \in 1..Len(exts)}
      matches_extension ==
        IF ext_set = {} THEN TRUE
        ELSE IF e.extension = None THEN FALSE
        ELSE e.extension[1] \in ext_set
      matches_path ==
        IF paths = <<>> THEN TRUE
        ELSE \E i \in 1..Len(paths) :
               paths_match_case_insensitive(e.relative_path, paths[i])
  IN matches_extension /\ matches_path

\* Vec::retain over es[1..n].
RECURSIVE retain(_, _, _, _)
retain(es, n, exts, paths) ==
  IF n = 0 THEN <<>>
  ELSE IF Retained(es[n], exts, paths)
    THEN Append(retain(es, n - 1, exts, paths), es[n])
  ELSE retain(es, n - 1, exts, paths)

filter_session_entries(es, exts, paths) == retain(es, Len(es), exts, paths)

\* At most MaxSession entries in the session, MaxSel selected extensions
\* and MaxSel selected paths.
MaxSession == 2
MaxSel == 1

SeqsUpTo(S, n) == UNION { [1..k -> S] : k \in 0..n }

SessionPaths ==
  { <<"a", Slash, "b">>, <<"A", "b">>, <<LowerEAcute, Slash, "a">> }
SessionExts == { None, Some(X), Some(<<"X">>) }
SessionPool ==
  [relative_path : SessionPaths, extension : SessionExts]
SelExtPool == { X, <<"X">> }
SelPathPool ==
  { <<"A">>, <<"a", Slash, "B">>, <<UpperEAcute>>,
    <<"a", Slash, "b", Slash, "a">> }

InitSession ==
  /\ NotSessionIdle
  /\ processed_entries \in SeqsUpTo(SessionPool, MaxSession)
  /\ entries_before = processed_entries
  /\ sel_exts \in SeqsUpTo(SelExtPool, MaxSel)
  /\ sel_paths \in SeqsUpTo(SelPathPool, MaxSel)
  /\ session_pc = "confirm"

\* run_interactive_flow on Confirm (app_controller.rs, line 252)
FilterSession ==
  /\ session_pc = "confirm"
  /\ processed_entries' =
       filter_session_entries(processed_entries, sel_exts, sel_paths)
  /\ session_pc' = "filtered"
  /\ UNCHANGED <<notSession, entries_before, sel_exts, sel_paths>>

NextSession == FilterSession

SpecSession == InitSession /\ [][NextSession]_vars

\* A string with its ASCII letters in lower case.
Lower(str) == [i \in 1..Len(str) |-> to_ascii_lowercase(str[i])]

\* A selected path is a prefix of the entry's path, component by component,
\* ignoring ASCII case.
PrefixIgnoringCase(sel, full) ==
  LET p == Components(sel)
      f == Components(full)
  IN /\ Len(p) <= Len(f)
     /\ \A i \in 1..Len(p) : Lower(p[i]) = Lower(f[i])

\* The condition under which an entry is to be kept.
KeepStated(e) ==
  /\ \/ sel_exts = <<>>
     \/ /\ e.extension # None
        /\ \E i \in 1..Len(sel_exts) : sel_exts[i] = e.extension[1]
  /\ \/ sel_paths = <<>>
     \/ \E i \in 1..Len(sel_paths) :
          PrefixIgnoringCase(sel_paths[i], e.relative_path)

Filtered == session_pc = "filtered"

\* C18: filter_session_entries keeps exactly the entries whose extension is
\* selected (or no extension is selected) and whose path has a selected
\* path as a prefix ignoring ASCII case (or no path is selected), in their
\* order, unmodified, and adds none.
C18_KeepsExactlyMatching ==
  Filtered => processed_entries = SelectSeq(entries_before, KeepStated)

\* An entry is kept through a selected path that differs from its own in
\* case, and another entry is removed.
C18_Witness ==
  /\ Filtered
  /\ sel_paths # <<>>
  /\ sel_exts # <<>>
  /\ Len(processed_entries) = 1
  /\ Len(entries_before) = 2
  /\ \A i \in 1..Len(sel_paths) :
       ~IsPrefixSeq(Components(sel_paths[i]),
                    Components(processed_entries[1].relative_path))

\* ------------------------------------------------------ settings popup
\* TokenizerChoice::value_variants (src/engine/token.rs, lines 23-36)
TokenizerVariants ==
  <<"O200kBase", "Cl100k", "P50kBase", "P50kEdit", "R50kBase">>

TokenizerChoice_next(t) ==
  TokenizerVariants[((position(TokenizerVariants, t)[1] + 1)
                       % Len(TokenizerVariants)) + 1]

TokenizerChoice_previous(t) ==
  TokenizerVariants[((position(TokenizerVariants, t)[1]
                        + Len(TokenizerVariants) - 1)
                       % Len(TokenizerVariants)) + 1]

\* SettingFlag::ALL
SettingFlag_ALL ==
  <<"LineNumbers", "Hidden", "FollowSymlinks", "NoCodeblock", "Tokenizer">>

TuiSettings ==
  [line_numbers : BOOLEAN, hidden : BOOLEAN, follow_symlinks : BOOLEAN,
   no_codeblock : BOOLEAN,
   tokenizer : {TokenizerVariants[i] : i \in 1..Len(TokenizerVariants)}]

cycle_next(flag, s) ==
  CASE flag = "LineNumbers" -> [s EXCEPT !.line_numbers = ~@]
    [] flag = "Hidden" -> [s EXCEPT !.hidden = ~@]
    [] flag = "FollowSymlinks" -> [s EXCEPT !.follow_symlinks = ~@]
    [] flag = "NoCodeblock" -> [s EXCEPT !.no_codeblock = ~@]
    [] flag = "Tokenizer" -> [s EXCEPT !.tokenizer = TokenizerChoice_next(@)]

cycle_previous(flag, s) ==
  IF flag = "Tokenizer"
    THEN [s EXCEPT !.tokenizer = TokenizerChoice_previous(@)]
    ELSE cycle_next(flag, s)

RescanWithConfig(s) == [settings |-> s, show_msg |-> TRUE]

\* select_filters_tui, lines 533-560
InitSettings ==
  /\ NotSettingsIdle
  /\ app_mode = "Normal"
  /\ settings \in TuiSettings
  /\ settings_state = None
  /\ settings_at_open = settings
  /\ tui_action = None

\* 's' in Normal mode (handle_key_press_normal, lines 695-698)
KeyOpenSettings ==
  /\ app_mode = "Normal"
  /\ tui_action = None
  /\ app_mode' = "Settings"
  /\ settings_state' = Some(0)
  /\ settings_at_open' = settings
  /\ UNCHANGED <<notSettings, settings, tui_action>>

InSettings ==
  /\ app_mode = "Settings"
  /\ tui_action = None
  /\ settings_state # None

\* Esc (lines 992-994)
SettingsEsc ==
  /\ InSettings
  /\ app_mode' = "Normal"
  /\ UNCHANGED <<notSettings, settings, settings_state, settings_at_open,
                 tui_action>>

\* Up or 'k' (lines 995-998)
SettingsUp ==
  /\ InSettings
  /\ settings_state' =
       Some((settings_state[1] + Len(SettingFlag_ALL) - 1)
              % Len(SettingFlag_ALL))
  /\ UNCHANGED <<notSettings, app_mode, settings, settings_at_open,
                 tui_action>>

\* Down or 'j' (lines 999-1004)
SettingsDown ==
  /\ InSettings
  /\ settings_state' = Some((settings_state[1] + 1) % Len(SettingFlag_ALL))
  /\ UNCHANGED <<notSettings, app_mode, settings, settings_at_open,
                 tui_action>>

\* Space, Right or 'l' (lines 1005-1007)
SettingsCycleNext ==
  /\ InSettings
  /\ settings' = cycle_next(SettingFlag_ALL[settings_state[1] + 1], settings)
  /\ UNCHANGED <<notSettings, app_mode, settings_state, settings_at_open,
                 tui_action>>

\* Left or 'h' (lines 1008-1010)
SettingsCyclePrevious ==
  /\ InSettings
  /\ settings' =
       cycle_previous(SettingFlag_ALL[settings_state[1] + 1], settings)
  /\ UNCHANGED <<notSettings, app_mode, settings_state, settings_at_open,
                 tui_action>>

\* Enter (lines 1011-1016)
SettingsEnter ==
  /\ InSettings
  /\ tui_action' = Some(RescanWithConfig(settings))
  /\ UNCHANGED <<notSettings, app_mode, settings, settings_state,
                 settings_at_open>>

NextSettings ==
  \/ KeyOpenSettings
  \/ SettingsEsc
  \/ SettingsUp
  \/ SettingsDown
  \/ SettingsCycleNext
  \/ SettingsCyclePrevious
  \/ SettingsEnter

SpecSettings == InitSettings /\ [][NextSettings]_vars

\* The popup closes without an action: Esc was pressed in Settings mode.
EscPressed == app_mode = "Settings" /\ app_mode' = "Normal"

\* C19: Esc in Settings mode returns to Normal mode with app.settings equal
\* to its value when the popup was opened with 's'.
C19_EscCancels ==
  [][EscPressed => settings' = settings_at_open]_vars

\* The path of the parent: the path without its last component.
ParentPath(p) ==
  LET cs == Split(p)
  IN IF Len(cs) <= 1 THEN <<>>
     ELSE SubSeq(p, 1, Len(p) - Len(Last(cs)) - 1)

IsRootChild(p) == Len(Split(p)) = 1

\* C21: the SelectionSet is ancestor-closed: every admitted path below a
\* root child has its parent path admitted, with depth one less; the root's
\* children have depth 0.
C21_AncestorClosed ==
  Selecting =>
    \A p \in Admitted :
      IF IsRootChild(p) THEN allowed_nodes[p] = 0
      ELSE /\ contains_key(allowed_nodes, ParentPath(p))
           /\ allowed_nodes[p] = allowed_nodes[ParentPath(p)] + 1

\* A child of a directory is admitted, at depth 1, while a sibling of it is
\* still in the queue.
C21_Witness ==
  /\ pc = "loop"
  /\ heap # EmptyBag
  /\ \E p \in Admitted :
       /\ ~IsRootChild(p)
       /\ allowed_nodes[p] = 1
       /\ \E x \in BagToSet(heap) :
            x.path # p /\ ParentPath(x.path) = ParentPath(p)

\* The rows returned without the "(other files)" row appended last.
TreeRows ==
  IF AppendOther(hidden_tokens, total_tokens)
    THEN SubSeq(out_entries, 1, Len(out_entries) - 1)
    ELSE out_entries

\* q is a path strictly below p.
Below(p, q) ==
  Len(q) > Len(p) + 1 /\ SubSeq(q, 1, Len(p) + 1) = Append(p, Slash)

\* C22: the rows are exactly the admitted nodes, each once, in depth-first
\* pre-order (a row's descendants follow it without interruption, a row's
\* parent precedes it), siblings in non-increasing token order; the root
\* and unselected nodes are never emitted.
C22_PreOrder ==
  pc = "done" =>
    LET R == TreeRows
    IN /\ {R[i].path : i \in 1..Len(R)} = Admitted
       /\ \A i, j \in 1..Len(R) : i # j => R[i].path # R[j].path
       /\ \A i \in 1..Len(R) : R[i].path # <<>>
       /\ \A j \in 1..Len(R) :
            ~IsRootChild(R[j].path) =>
              \E i \in 1..(j - 1) : R[i].path = ParentPath(R[j].path)
       /\ \A i, j \in 1..Len(R) :
            (i < j /\ Below(R[i].path, R[j].path)) =>
              \A k \in (i + 1)..j : Below(R[i].path, R[k].path)
       /\ \A i, j \in 1..Len(R) :
            (i < j /\ ParentPath(R[i].path) = ParentPath(R[j].path)
                   /\ IsRootChild(R[i].path) = IsRootChild(R[j].path)) =>
              R[i].tokens >= R[j].tokens

\* Paths of children of one parent.
SameParent(p, q) ==
  /\ IsRootChild(p) = IsRootChild(q)
  /\ ParentPath(p) = ParentPath(q)

\* Rows i and j of R belong to one displayed sibling group: the same depth,
\* the same parent path, and no row of a smaller depth between them.
SameGroup(R, i, j) ==
  /\ R[i].depth = R[j].depth
  /\ SameParent(R[i].path, R[j].path)
  /\ \A k \in 1..Len(R) :
       ((i < k /\ k < j) \/ (j < k /\ k < i)) => R[k].depth >= R[i].depth

\* C23: a tree row has is_last exactly when no later row belongs to its
\* sibling group, so every displayed sibling group has exactly one is_last
\* row; siblings outside the SelectionSet do not count.
C23_IsLast ==
  pc = "done" =>
    LET R == TreeRows
    IN /\ \A i \in 1..Len(R) :
            R[i].is_last <=>
              ~\E j \in (i + 1)..Len(R) : SameGroup(R, i, j)
       /\ \A i \in 1..Len(R) :
            Cardinality({j \in 1..Len(R) :
                           SameGroup(R, i, j) /\ R[j].is_last}) = 1

\* The entry list in the opposite order.
Reversed(es) == [i \in 1..Len(es) |-> es[Len(es) + 1 - i]]

\* C24: the tree, total_tokens and the returned rows are those of the same
\* entries given in another order.
C24_OrderIndependent ==
  LET t0 == BuildTree(Reversed(entries), Len(entries))
      total == RootChildrenSum(t0)
  IN /\ Built => /\ root = [t0 EXCEPT ![RootKey].tokens = total]
                 /\ total_tokens = total
     /\ pc = "done" =>
          out_entries = generate_token_map_with_limit(Reversed(entries),
                                                      max_lines, min_percent)

\* Number of times the path p has been pushed so far: its copies still in
\* the queue and the candidates popped with it.
PushesOf(p) ==
  LET here == {x \in BagToSet(heap) : x.path = p}
  IN BagCardinality([x \in here |-> heap[x]])
       + Cardinality({i \in 1..Len(popped) : popped[i].path = p})

\* C25: no node is pushed more than once and the loop has popped at most as
\* many candidates as the tree has nodes; when the loop condition fails the
\* selection returns.
C25_Terminates ==
  Selecting =>
    /\ \A k \in NonRoot(root) :
         PushesOf(root[k].path) <= Cardinality(NodesAt(root[k].path))
    /\ Len(popped) <= Cardinality(NonRoot(root))
    /\ Len(popped) + BagCardinality(heap) <= Cardinality(NonRoot(root))

\* ---------------------------------------------------------------------
\* generate_hierarchical_bar on its own: bars of every depth.

MaxBarDepth == 5
BarWidths == {0, 2}
ParentBars == {<<>>, <<FullBlock, FullBlock>>, <<LightShade, FullBlock>>}
BarPercents == {Percentage(n, 2) : n \in 0..2}

InitBar ==
  /\ NotBarIdle
  /\ bar_call = <<>>
  /\ shade_seen = {}

\* Positions of a bar that take the shade character (lines 110-113).
ShadedAt(bar_width, parent_bar_str, percentage) ==
  {i \in 1..bar_width :
     /\ i - 1 >= FilledChars(percentage, bar_width)
     /\ i - 1 < Len(parent_bar_str)
     /\ parent_bar_str[i] = FullBlock}

\* One call of generate_hierarchical_bar.
GenerateBar ==
  /\ \E bw \in BarWidths, pb \in ParentBars, pct \in BarPercents,
        d \in 0..MaxBarDepth :
       LET bar == generate_hierarchical_bar(bw, pb, pct, d)
       IN /\ bar_call' = [bar_width |-> bw, parent_bar_str |-> pb,
                          percentage |-> pct, depth |-> d, bar |-> bar]
          /\ shade_seen' = shade_seen \cup
               {[depth |-> d, ch |-> bar[i]] : i \in ShadedAt(bw, pb, pct)}
  /\ UNCHANGED notBar

NextBar == GenerateBar

SpecBar == InitBar /\ [][NextBar]_vars

\* C26 as stated: depths 1, 2, 3 and 4 are drawn with four distinct shade
\* characters, and two depths of at least 1 that differ by a multiple of 4
\* are drawn with the same one.
C26_RotatingShade ==
  \A x, y \in shade_seen :
    /\ (x.depth \in 1..4 /\ y.depth \in 1..4 /\ x.depth # y.depth)
         => x.ch # y.ch
    /\ (x.depth >= 1 /\ y.depth >= 1 /\ (x.depth - y.depth) % 4 = 0)
         => x.ch = y.ch

\* C26: depths 1, 2, 3 and 4 are drawn with four distinct shade
\* characters, depth 0 with the character of depth 1 and every depth above
\* 4 with the character of depth 4; the shade replaces exactly the solid
\* cells of the parent bar that lie beyond the filled part.
C26_SaturatingShade ==
  /\ \A x, y \in shade_seen :
       LET dx == MinOf(MaxOf(x.depth, 1), 4)
           dy == MinOf(MaxOf(y.depth, 1), 4)
       IN (dx = dy) <=> (x.ch = y.ch)
  /\ bar_call # <<>> =>
       \A i \in 1..Len(bar_call.bar) :
         (/\ i \notin ShadedAt(bar_call.bar_width, bar_call.parent_bar_str,
                               bar_call.percentage)
          /\ i <= Len(bar_call.parent_bar_str)
          /\ i - 1 >= FilledChars(bar_call.percentage, bar_call.bar_width))
           => bar_call.bar[i] = bar_call.parent_bar_str[i]

\* Bars of depths 1, 4 and 5 have been drawn over a solid parent bar.
C26_Witness ==
  /\ \A d \in {1, 4, 5} : \E x \in shade_seen : x.depth = d
  /\ bar_call # <<>>
  /\ bar_call.depth = 5
  /\ ShadedAt(bar_call.bar_width, bar_call.parent_bar_str,
              bar_call.percentage) # {}

\* Widest rendered prefix plus name over the printed rows.
WidestRow ==
  MaxSeq([i \in 1..Len(printed) |->
            width(printed[i].prefix) + width(Chars(out_entries[i].name))],
         Len(printed))

\* C27: the name column is as wide as the widest rendered prefix plus
\* name, capped at half the terminal width; when the widest row fits in
\* half the terminal width every name is printed whole.
C27_NameColumnWidth ==
  (pc = "shown" /\ printed # <<>>) =>
    /\ max_name_length = MinOf(terminal_width \div 2, WidestRow)
    /\ WidestRow <= terminal_width \div 2 =>
         \A i \in 1..Len(printed) :
           LET name == Chars(out_entries[i].name)
           IN /\ Len(printed[i].name) >= Len(name)
              /\ SubSeq(printed[i].name, 1, Len(name)) = name

\* The file nodes beneath the directory d.
FilesBeneath(ar, d) ==
  {j \in 1..(Len(ar) - 1) :
     /\ IS_DIR \notin Node(ar, j).flags
     /\ d \in Ancestors(ar, j)}

\* C28: has_partial_selection holds exactly for the directories with a
\* selected and an unselected file beneath them.
C28_TriState ==
  tree_pc = "keys" =>
    \A d \in 1..(Len(arena) - 1) :
      IS_DIR \in Node(arena, d).flags =>
        (has_partial_selection(ThePane, d) <=>
           /\ \E j \in FilesBeneath(arena, d) :
                SELECTED \in Node(arena, j).flags
           /\ \E j \in FilesBeneath(arena, d) :
                SELECTED \notin Node(arena, j).flags)

\* The file nodes the count is about: SELECTED and with an extension that
\* is selected in the extensions pane.
CountedFiles(ar, exts) ==
  {j \in 1..(Len(ar) - 1) :
     /\ IS_DIR \notin Node(ar, j).flags
     /\ SELECTED \in Node(ar, j).flags
     /\ Node(ar, j).extension # None
     /\ Node(ar, j).extension[1] \in exts}

\* Sum of total_toks over a set of nodes.
RECURSIVE SumToks(_, _)
SumToks(ar, S) ==
  IF S = {} THEN 0
  ELSE LET j == CHOOSE x \in S : TRUE
       IN Node(ar, j).total_toks + SumToks(ar, S \ {j})

\* C29: after recalculate_all_visible_counts total_selected_files is the
\* number of selected files with a selected extension, and every
\* directory's visible_files and visible_toks are the count and the token
\* sum of those files beneath it.
C29_VisibleCounts ==
  tree_pc = "keys" =>
    /\ total_selected_files = Cardinality(CountedFiles(arena, active_exts))
    /\ \A d \in 0..(Len(arena) - 1) :
         IS_DIR \in Node(arena, d).flags =>
           LET below == CountedFiles(arena, active_exts)
                          \cap FilesBeneath(arena, d)
           IN /\ Node(arena, d).visible_files = Cardinality(below)
              /\ Node(arena, d).visible_toks = SumToks(arena, below)

\* C30: a directory below the root with at least one child is SELECTED
\* exactly when all of its children are.
C30_SelectedIffChildren ==
  tree_pc = "keys" =>
    \A d \in 1..(Len(arena) - 1) :
      (IS_DIR \in Node(arena, d).flags /\ ChildrenOf(arena, d) # <<>>) =>
        (SELECTED \in Node(arena, d).flags <=>
           \A i \in 1..Len(ChildrenOf(arena, d)) :
             SELECTED \in Node(arena, ChildrenOf(arena, d)[i]).flags)

\* A session started from a cached selection in which a directory has lost
\* SELECTED because one of its children is not selected, while a directory
\* beneath it still is.
C30_Witness ==
  /\ tree_pc = "keys"
  /\ last_selection # None
  /\ last_selection[1].directories # {}
  /\ \E d, e \in 1..(Len(arena) - 1) :
       /\ IS_DIR \in Node(arena, d).flags
       /\ IS_DIR \in Node(arena, e).flags
       /\ Node(arena, e).parent = Some(d)
       /\ SELECTED \notin Node(arena, d).flags
       /\ SELECTED \in Node(arena, e).flags

====
